---- MODULE Spec2Model ----
(***************************************************************************)
(* Model of the volume-replicator controller: the informer caches and      *)
(* their event handlers, the deduplicating work queue, the worker loop,    *)
(* the policy resolver and reconcileVolumeReplication with the create and  *)
(* delete calls it issues against the API server.                          *)
(*                                                                         *)
(* Keys "namespace/name" are modelled as pairs <<namespace, name>>; Go     *)
(* maps are functions with a finite domain, read with MapGet (a missing    *)
(* key reads as the empty string, as in Go); a nil pointer is Nil.         *)
(***************************************************************************)
EXTENDS Integers, Sequences, FiniteSets, TLC

\* ------------------------------------------------------------------------
\* Program constants (internal/constants)
\* ------------------------------------------------------------------------
VrcValueAnnotation == "replication.superphenix.net/class"
VrcSelectorAnnotation == "replication.superphenix.net/classSelector"
ParentLabel == "replication.superphenix.net/parent"
StorageClassGroup == "replication.superphenix.net/storageClassGroup"
StorageProvisionerAnnotation == "volume.kubernetes.io/storage-provisioner"
DeprecatedStorageProvisionerAnnotation == "volume.beta.kubernetes.io/storage-provisioner"
\* the key namespaceUpdate compares (the README's class annotation)
VrcAnnotation == "replication.superphenix.net/class"

\* ------------------------------------------------------------------------
\* Bounds of the model
\* ------------------------------------------------------------------------
\* number of external changes (users, other controllers, API outages)
MaxChanges == 1

\* ------------------------------------------------------------------------
\* Values
\* ------------------------------------------------------------------------
Nil == [nil |-> TRUE]
EmptyMap == [k \in {} |-> ""]
MapGet(m, k) == IF k \in DOMAIN m THEN m[k] ELSE ""
MapPut(m, k, v) == [x \in DOMAIN m \cup {k} |-> IF x = k THEN v ELSE m[x]]

Namespaces == {"default"}
Names == {"data-1"}
\* cache.MetaNamespaceKeyFunc / fmt.Sprintf("%s/%s", namespace, name)
MetaNamespaceKey(namespace, name) == <<namespace, name>>
\* cache.SplitMetaNamespaceKey
SplitNamespace(key) == key[1]
SplitName(key) == key[2]
Keys == {MetaNamespaceKey(ns, n) : ns \in Namespaces, n \in Names}
Workers == {"w1"}

\* A PersistentVolumeClaim
Pvc(ns, n, annotations, labels, sc, deleting) ==
    [name |-> n, namespace |-> ns, annotations |-> annotations, labels |-> labels,
     storageClassName |-> sc, deletionTimestamp |-> deleting]

\* the claims users create in the model
PvcShapes ==
    { [annotations |-> EmptyMap, labels |-> EmptyMap],
      [annotations |-> (VrcValueAnnotation :> "gold"), labels |-> ("app" :> "db")],
      [annotations |-> (VrcSelectorAnnotation :> "daily")
                       @@ (StorageProvisionerAnnotation :> "rbd.csi"),
       labels |-> EmptyMap] }
ActivePvcs(key) ==
    { Pvc(SplitNamespace(key), SplitName(key), s.annotations, s.labels, "fast", FALSE)
        : s \in PvcShapes }
DeletingPvcs(key) ==
    { Pvc(SplitNamespace(key), SplitName(key), (VrcValueAnnotation :> "gold"),
          ("app" :> "db"), "fast", TRUE) }
PvcValues(key) == ActivePvcs(key) \cup DeletingPvcs(key)

\* A Namespace
Ns(n, annotations) == [name |-> n, annotations |-> annotations]
NsValues(n) == { Ns(n, EmptyMap), Ns(n, (VrcValueAnnotation :> "silver")) }

\* A VolumeReplicationClass
Vrc(n, labels, provisioner) == [name |-> n, labels |-> labels, provisioner |-> provisioner]
DailyLabels == (StorageClassGroup :> "ceph") @@ (VrcSelectorAnnotation :> "daily")
VrcPool == { Vrc("vrc-daily", DailyLabels, "rbd.csi"),
             Vrc("vrc-daily-b", DailyLabels, "rbd.csi") }

\* StorageClass label maps
ScValues == { (StorageClassGroup :> "ceph"), EmptyMap }

\* A VolumeReplication (unstructured content)
DataSource(apiGroup, kind, n) ==
    ("apiGroup" :> apiGroup) @@ ("kind" :> kind) @@ ("name" :> n)
VrSpec(class, state, dataSource) ==
    [volumeReplicationClass |-> class, replicationState |-> state,
     dataSource |-> dataSource]
Vr(ns, n, annotations, labels, spec) ==
    [name |-> n, namespace |-> ns, annotations |-> annotations, labels |-> labels,
     spec |-> spec]

\* the descriptors users or other controllers create in the model
ExternalVrs(key) ==
    LET ns == SplitNamespace(key)
        n == SplitName(key)
        good == DataSource("v1", "PersistentVolumeClaim", n)
    IN { Vr(ns, n, EmptyMap, EmptyMap, VrSpec("gold", "primary", good)),
         Vr(ns, n, EmptyMap, (ParentLabel :> n), VrSpec("gold", "primary", good)),
         Vr(ns, n, EmptyMap, (ParentLabel :> n), VrSpec("bronze", "primary", good)),
         Vr(ns, n, EmptyMap, (ParentLabel :> n),
            VrSpec("gold", "primary", DataSource("v1", "PersistentVolumeClaim", "other"))) }

VARIABLES
    apiPvc,      \* API server: claims, by key (Nil: none)
    apiNs,       \* API server: namespaces, by name
    apiVr,       \* API server: VolumeReplications, by key (Nil: none)
    apiSc,       \* API server: StorageClass labels, by name
    vrcs,        \* API server: the VolumeReplicationClasses
    apiUp,       \* whether API calls answer (FALSE: transient errors)
    pvcCache,    \* PvcInformer's indexer
    nsCache,     \* NamespaceInformer's indexer
    vrCache,     \* VolumeReplicationInformer's indexer
    pvcEvents,   \* watch events not yet delivered to PvcInformer
    nsEvents,    \* watch events not yet delivered to NamespaceInformer
    vrEvents,    \* watch events not yet delivered to VolumeReplicationInformer
    queue,       \* pvcQueue: keys waiting, in order
    dirty,       \* pvcQueue: keys that need processing
    processing,  \* pvcQueue: keys being processed
    pc,          \* each worker's position in processNextItem
    inv,         \* each worker's current (or last) reconcile invocation
    last,        \* per key, the last completed invocation
    nchanges     \* external changes so far

apiVars == <<apiPvc, apiNs, apiVr, apiSc, vrcs, apiUp>>
cacheVars == <<pvcCache, nsCache, vrCache>>
eventVars == <<pvcEvents, nsEvents, vrEvents>>
queueVars == <<queue, dirty, processing>>
workerVars == <<pc, inv, last>>
vars == <<apiVars, cacheVars, eventVars, queueVars, workerVars, nchanges>>

\* ------------------------------------------------------------------------
\* Policy resolver
\* ------------------------------------------------------------------------
\* pvc.Spec.StorageClassName == nil
NoStorageClass == "<nil>"

\* faulty variant: the namespace is not consulted
getAnnotationValue_ClaimOnly(pvc, annotation) == MapGet(pvc.annotations, annotation)

\* faulty variant: a claim annotation that is present but empty is returned
getAnnotationValue_NoEmptyCheck(pvc, annotation) ==
    IF annotation \in DOMAIN pvc.annotations
    THEN pvc.annotations[annotation]
    ELSE IF nsCache[pvc.namespace] = Nil
         THEN ""
         ELSE MapGet(nsCache[pvc.namespace].annotations, annotation)

\* getAnnotationValue: the claim's annotation when non-empty, else the
\* namespace's (read from NamespaceInformer); "" when the lookup fails
getAnnotationValue(pvc, annotation) ==
    IF MapGet(pvc.annotations, annotation) # ""
    THEN MapGet(pvc.annotations, annotation)
    ELSE IF nsCache[pvc.namespace] = Nil
         THEN ""
         ELSE MapGet(nsCache[pvc.namespace].annotations, annotation)

getVolumeReplicationClassValue(pvc) == getAnnotationValue(pvc, VrcValueAnnotation)

getVolumeReplicationClassSelector(pvc) == getAnnotationValue(pvc, VrcSelectorAnnotation)

\* getStorageClassLabels: (nil, nil) without a storage class reference,
\* an error when the Get against the API fails
getStorageClassLabels(pvc) ==
    IF pvc.storageClassName = NoStorageClass
    THEN [labels |-> EmptyMap, err |-> FALSE]
    ELSE IF ~apiUp \/ pvc.storageClassName \notin DOMAIN apiSc
         THEN [labels |-> EmptyMap, err |-> TRUE]
         ELSE [labels |-> apiSc[pvc.storageClassName], err |-> FALSE]

\* faulty variant: without a group label the group "ceph" is assumed
getStorageClassGroup_DefaultGroup(pvc) ==
    LET stc == getStorageClassLabels(pvc)
    IN IF stc.err
       THEN [group |-> "", err |-> TRUE]
       ELSE [group |-> IF MapGet(stc.labels, StorageClassGroup) = ""
                       THEN "ceph" ELSE MapGet(stc.labels, StorageClassGroup),
             err |-> FALSE]

getStorageClassGroup(pvc) ==
    LET stc == getStorageClassLabels(pvc)
    IN IF stc.err
       THEN [group |-> "", err |-> TRUE]
       ELSE [group |-> MapGet(stc.labels, StorageClassGroup), err |-> FALSE]

\* faulty variant: the deprecated annotation is not read
getPvcProvisioner_NoFallback(pvc) == MapGet(pvc.annotations, StorageProvisionerAnnotation)

getPvcProvisioner(pvc) ==
    IF MapGet(pvc.annotations, StorageProvisionerAnnotation) # ""
    THEN MapGet(pvc.annotations, StorageProvisionerAnnotation)
    ELSE MapGet(pvc.annotations, DeprecatedStorageProvisionerAnnotation)

\* filterVrcFromSelector: List with MatchLabels {group, selector}, then the
\* provisioner filter; the names kept
filterVrcFromSelector(group, selector, pvcProvisioner) ==
    IF ~apiUp
    THEN [classes |-> {}, err |-> TRUE]
    ELSE LET list == { v \in vrcs :
                         /\ StorageClassGroup \in DOMAIN v.labels
                         /\ v.labels[StorageClassGroup] = group
                         /\ VrcSelectorAnnotation \in DOMAIN v.labels
                         /\ v.labels[VrcSelectorAnnotation] = selector }
         IN [classes |-> { v.name : v \in
                             { x \in list : x.provisioner = pvcProvisioner
                                            \/ pvcProvisioner = "" } },
             err |-> FALSE]

\* faulty variant: several matching classes are not told from one
getVolumeReplicationClassFromSelector_Any(pvc) ==
    LET selector == getVolumeReplicationClassSelector(pvc)
        stc == getStorageClassGroup(pvc)
        found == filterVrcFromSelector(stc.group, selector, getPvcProvisioner(pvc))
    IN IF selector = "" THEN ""
       ELSE IF stc.err THEN ""
       ELSE IF stc.group = "" THEN ""
       ELSE IF found.err THEN ""
       ELSE IF Cardinality(found.classes) = 0 THEN ""
       ELSE CHOOSE c \in found.classes : TRUE

getVolumeReplicationClassFromSelector(pvc) ==
    LET selector == getVolumeReplicationClassSelector(pvc)
        stc == getStorageClassGroup(pvc)
        found == filterVrcFromSelector(stc.group, selector, getPvcProvisioner(pvc))
    IN IF selector = "" THEN ""
       ELSE IF stc.err THEN ""
       ELSE IF stc.group = "" THEN ""
       ELSE IF found.err THEN ""
       ELSE IF Cardinality(found.classes) # 1 THEN ""
       ELSE CHOOSE c \in found.classes : TRUE

\* faulty variant: the selector is resolved first
getVolumeReplicationClass_SelectorFirst(pvc) ==
    LET value == getVolumeReplicationClassFromSelector(pvc)
    IN IF value # "" THEN value ELSE getVolumeReplicationClassValue(pvc)

getVolumeReplicationClass(pvc) ==
    LET value == getVolumeReplicationClassValue(pvc)
    IN IF value # "" THEN value ELSE getVolumeReplicationClassFromSelector(pvc)

\* ------------------------------------------------------------------------
\* Helpers of the reconciler
\* ------------------------------------------------------------------------
\* faulty variant: the test inverted
isParentLabelPresent_Inverted(labels) == MapGet(labels, ParentLabel) = ""

\* faulty variant: the key alone counts, whatever its value
isParentLabelPresent_KeyOnly(labels) == ParentLabel \in DOMAIN labels

isParentLabelPresent(labels) == MapGet(labels, ParentLabel) # ""

\* faulty variant: the claim's labels are dropped
getLabelsWithParent_OnlyParent(pvcLabels, parent) == (ParentLabel :> parent)

\* faulty variant: a parent label the claim already carries is kept
getLabelsWithParent_KeepsExisting(pvcLabels, parent) ==
    LET copied == IF pvcLabels = Nil THEN EmptyMap ELSE pvcLabels
    IN IF ParentLabel \in DOMAIN copied
       THEN copied
       ELSE MapPut(copied, ParentLabel, parent)

\* res is a fresh map; the range over a nil map copies nothing
getLabelsWithParent(pvcLabels, parent) ==
    LET copied == IF pvcLabels = Nil THEN EmptyMap ELSE pvcLabels
    IN MapPut(copied, ParentLabel, parent)

\* the call as its caller sees it: the map returned and the map passed in,
\* which is only read
getLabelsWithParentCall(pvcLabels, parent) ==
    [res |-> getLabelsWithParent(pvcLabels, parent), pvcLabels |-> pvcLabels]

\* faulty variant: the recorded class is not compared
isVolumeReplicationCorrect_IgnoresClass(pvc, vr) ==
    LET dataSource == vr.spec.dataSource
    IN ~(\/ MapGet(dataSource, "apiGroup") # "v1"
         \/ MapGet(dataSource, "kind") # "PersistentVolumeClaim"
         \/ MapGet(dataSource, "name") # pvc.name)

\* faulty variant: the replicationState must be "primary" as well
isVolumeReplicationCorrect_ChecksState(pvc, vr) ==
    LET replicationClass == vr.spec.volumeReplicationClass
        dataSource == vr.spec.dataSource
    IN /\ getVolumeReplicationClass(pvc) = replicationClass
       /\ MapGet(dataSource, "apiGroup") = "v1"
       /\ MapGet(dataSource, "kind") = "PersistentVolumeClaim"
       /\ MapGet(dataSource, "name") = pvc.name
       /\ vr.spec.replicationState = "primary"

\* faulty variant: the kind of the dataSource is not compared
isVolumeReplicationCorrect_IgnoresKind(pvc, vr) ==
    LET replicationClass == vr.spec.volumeReplicationClass
        dataSource == vr.spec.dataSource
    IN /\ getVolumeReplicationClass(pvc) = replicationClass
       /\ MapGet(dataSource, "apiGroup") = "v1"
       /\ MapGet(dataSource, "name") = pvc.name

isVolumeReplicationCorrect(pvc, vr) ==
    LET replicationClass == vr.spec.volumeReplicationClass
        dataSource == vr.spec.dataSource
    IN IF getVolumeReplicationClass(pvc) # replicationClass
       THEN FALSE
       ELSE IF \/ MapGet(dataSource, "apiGroup") # "v1"
               \/ MapGet(dataSource, "kind") # "PersistentVolumeClaim"
               \/ MapGet(dataSource, "name") # pvc.name
            THEN FALSE
            ELSE TRUE

\* --exclusion-regex / EXCLUSION_REGEX, as the controller of the model is run
ExclusionRegex == "^data-.*"

\* regexp.MatchString on the patterns and the names of the model: "" matches
\* every name, "(" does not compile
MatchString(pattern, s) ==
    IF pattern = "("
    THEN [match |-> FALSE, err |-> TRUE]
    ELSE IF pattern = ""
         THEN [match |-> TRUE, err |-> FALSE]
         ELSE IF pattern = "^data-.*"
              THEN [match |-> s \in {"data-1", "data-2"}, err |-> FALSE]
              ELSE IF pattern = "^prime-.*"
                   THEN [match |-> s \in {"prime-1"}, err |-> FALSE]
                   ELSE IF pattern = "-1$"
                        THEN [match |-> s \in {"data-1", "prime-1"}, err |-> FALSE]
                        ELSE [match |-> FALSE, err |-> FALSE]

\* faulty variant: the empty pattern is handed to the matcher
pvcNameMatchesExclusionRegex_NoEmptyCheck(regex, pvc) ==
    LET matched == MatchString(regex, pvc.name)
    IN IF matched.err THEN FALSE ELSE matched.match

\* pvcNameMatchesExclusion with ExclusionRegex set to regex by the flag
pvcNameMatchesExclusionRegex(regex, pvc) ==
    IF regex = ""
    THEN FALSE
    ELSE LET matched == MatchString(regex, pvc.name)
         IN IF matched.err THEN FALSE ELSE matched.match

\* pvcNameMatchesExclusion; neither reconcileVolumeReplication nor an event
\* handler calls it
pvcNameMatchesExclusion(pvc) == pvcNameMatchesExclusionRegex(ExclusionRegex, pvc)

getPersistentVolumeClaim(key) == pvcCache[key]

getVolumeReplication(key) == vrCache[key]

\* the object createVolumeReplication builds for a claim
NewVolumeReplication(pvc) ==
    Vr(pvc.namespace, pvc.name, pvc.annotations,
       getLabelsWithParent(pvc.labels, pvc.name),
       VrSpec(getVolumeReplicationClass(pvc), "primary",
              DataSource("v1", "PersistentVolumeClaim", pvc.name)))

\* ------------------------------------------------------------------------
\* Work queue (pvcQueue): a deduplicating queue
\* ------------------------------------------------------------------------
\* Run's deferred c.pvcQueue.ShutDown() has run: Run has returned
ShuttingDown == "run" \in DOMAIN pc /\ pc["run"] = "returned"

QueueState ==
    [queue |-> queue, dirty |-> dirty, processing |-> processing,
     shuttingDown |-> ShuttingDown]

\* faulty variant: a key being processed is queued again at once
QueueAdd_NoProcessingCheck(q, key) ==
    IF q.shuttingDown \/ key \in q.dirty
    THEN q
    ELSE [q EXCEPT !.dirty = @ \cup {key}, !.queue = Append(@, key)]

\* faulty variant: a key already pending is queued once more
QueueAdd_NoDirtyCheck(q, key) ==
    IF q.shuttingDown
    THEN q
    ELSE [q EXCEPT !.dirty = @ \cup {key},
                   !.queue = IF key \in q.processing THEN @ ELSE Append(@, key)]

\* pvcQueue.Add(key): refused after ShutDown, coalesced when already dirty
QueueAdd(q, key) ==
    IF q.shuttingDown \/ key \in q.dirty
    THEN q
    ELSE [q EXCEPT !.dirty = @ \cup {key},
                   !.queue = IF key \in q.processing THEN @ ELSE Append(@, key)]

RECURSIVE QueueAddAll(_, _)
QueueAddAll(q, keys) ==
    IF keys = <<>> THEN q ELSE QueueAddAll(QueueAdd(q, Head(keys)), Tail(keys))

\* the orders in which a lister may return the elements of S
RECURSIVE Orders(_)
Orders(S) ==
    IF S = {} THEN { <<>> }
    ELSE UNION { { <<x>> \o o : o \in Orders(S \ {x}) } : x \in S }

SetQueue(q) ==
    /\ queue' = q.queue
    /\ dirty' = q.dirty
    /\ processing' = q.processing

\* ------------------------------------------------------------------------
\* Event handlers
\* ------------------------------------------------------------------------
\* pvcUpdate: claim add, update and delete
pvcUpdate(q, pvc) == QueueAdd(q, MetaNamespaceKey(pvc.namespace, pvc.name))

\* faulty variant: any change of the namespace enqueues its claims
namespaceUpdate_AnyChange(q, oldNs, newNs, order) ==
    IF oldNs = newNs THEN q ELSE QueueAddAll(q, order)

\* faulty variant: the selector annotation is compared as well
namespaceUpdate_BothAnnotations(q, oldNs, newNs, order) ==
    IF /\ MapGet(oldNs.annotations, VrcAnnotation) = MapGet(newNs.annotations, VrcAnnotation)
       /\ MapGet(oldNs.annotations, VrcSelectorAnnotation)
             = MapGet(newNs.annotations, VrcSelectorAnnotation)
    THEN q
    ELSE QueueAddAll(q, order)

\* namespaceUpdate, the claims of the namespace listed in the order `order`
namespaceUpdate(q, oldNs, newNs, order) ==
    IF MapGet(oldNs.annotations, VrcAnnotation) = MapGet(newNs.annotations, VrcAnnotation)
    THEN q
    ELSE QueueAddAll(q, order)

\* the keys of the claims PvcInformer lists in a namespace
PvcKeysIn(namespace) ==
    { MetaNamespaceKey(pvcCache[k].namespace, pvcCache[k].name) :
        k \in { x \in DOMAIN pvcCache :
                   pvcCache[x] # Nil /\ pvcCache[x].namespace = namespace } }

\* volumeReplicationCreateOrDelete: descriptor add and delete
volumeReplicationCreateOrDelete(q, volumeReplication) ==
    QueueAdd(q, MetaNamespaceKey(volumeReplication.namespace, volumeReplication.name))

\* faulty variant: the parent label is not looked at
volumeReplicationUpdate_NoOwnerCheck(q, oldVr, newVr) ==
    IF oldVr.spec = newVr.spec
    THEN q
    ELSE QueueAdd(q, MetaNamespaceKey(newVr.namespace, newVr.name))

\* volumeReplicationUpdate: descriptor update
volumeReplicationUpdate(q, oldVr, newVr) ==
    IF ~isParentLabelPresent(newVr.labels)
    THEN q
    ELSE IF oldVr.spec = newVr.spec
         THEN q
         ELSE QueueAdd(q, MetaNamespaceKey(newVr.namespace, newVr.name))

\* ------------------------------------------------------------------------
\* API server calls on VolumeReplications (k8s.DynamicClientSet)
\* ------------------------------------------------------------------------
Call(verb, key, obj, result) == [verb |-> verb, key |-> key, obj |-> obj, result |-> result]

\* Delete(name) in a namespace; obj of the call is the object removed
ApiDelete(key) ==
    IF ~apiUp
    THEN [apiVr |-> apiVr, vrEvents |-> vrEvents, call |-> Call("delete", key, Nil, "error")]
    ELSE IF apiVr[key] = Nil
         THEN [apiVr |-> apiVr, vrEvents |-> vrEvents,
               call |-> Call("delete", key, Nil, "notfound")]
         ELSE [apiVr |-> [apiVr EXCEPT ![key] = Nil],
               vrEvents |-> Append(vrEvents, [key |-> key, obj |-> Nil]),
               call |-> Call("delete", key, apiVr[key], "ok")]

\* Create(obj) in the object's namespace; obj of the call is the object sent
ApiCreate(obj) ==
    LET key == MetaNamespaceKey(obj.namespace, obj.name)
    IN IF ~apiUp
       THEN [apiVr |-> apiVr, vrEvents |-> vrEvents, call |-> Call("create", key, obj, "error")]
       ELSE IF apiVr[key] # Nil
            THEN [apiVr |-> apiVr, vrEvents |-> vrEvents,
                  call |-> Call("create", key, obj, "exists")]
            ELSE [apiVr |-> [apiVr EXCEPT ![key] = obj],
                  vrEvents |-> Append(vrEvents, [key |-> key, obj |-> obj]),
                  call |-> Call("create", key, obj, "ok")]

\* cleanupVolumeReplication: one Delete, whose error is at most logged
cleanupVolumeReplication(name, namespace) == ApiDelete(MetaNamespaceKey(namespace, name))

\* createVolumeReplication: builds the descriptor and issues one Create
createVolumeReplication(pvc) == ApiCreate(NewVolumeReplication(pvc))

\* ------------------------------------------------------------------------
\* Initial state: NewController and LoadInformers on a cluster in any state;
\* the caches are synced and every cached object was notified as added
\* ------------------------------------------------------------------------
NoPendingEvents == pvcEvents = <<>> /\ nsEvents = <<>> /\ vrEvents = <<>>

\* what the resolver reads besides the claim
ResolverEnv == <<nsCache, apiSc, vrcs, apiUp>>

Init ==
    /\ apiPvc \in { f \in [Keys -> UNION { PvcValues(k) : k \in Keys } \cup {Nil}] :
                      \A k \in Keys : f[k] = Nil \/ f[k] \in PvcValues(k) }
    /\ apiNs \in { f \in [Namespaces -> UNION { NsValues(n) : n \in Namespaces }] :
                     \A n \in Namespaces : f[n] \in NsValues(n) }
    /\ apiVr \in { f \in [Keys -> UNION { ExternalVrs(k) : k \in Keys } \cup {Nil}] :
                     \A k \in Keys : f[k] = Nil \/ f[k] \in ExternalVrs(k) }
    /\ apiSc = ("fast" :> (StorageClassGroup :> "ceph"))
    /\ vrcs \in { c \in SUBSET VrcPool : Vrc("vrc-daily", DailyLabels, "rbd.csi") \in c }
    /\ apiUp = TRUE
    /\ pvcCache = apiPvc
    /\ nsCache = apiNs
    /\ vrCache = apiVr
    /\ pvcEvents = <<>>
    /\ nsEvents = <<>>
    /\ vrEvents = <<>>
    /\ dirty = { k \in Keys : apiPvc[k] # Nil \/ apiVr[k] # Nil }
    /\ queue \in Orders(dirty)
    /\ processing = {}
    /\ pc = [w \in Workers |-> "idle"]
    /\ inv = [w \in Workers |-> Nil]
    /\ last = [k \in Keys |-> Nil]
    /\ nchanges = 0

\* ------------------------------------------------------------------------
\* External changes
\* ------------------------------------------------------------------------
\* an external change ends every quiet period
Disturb ==
    /\ nchanges' = nchanges + 1
    /\ inv' = [w \in DOMAIN inv |-> IF inv[w] = Nil THEN Nil ELSE [inv[w] EXCEPT !.quiet = FALSE]]
    /\ last' = [k \in DOMAIN last |-> IF last[k] = Nil THEN Nil ELSE [last[k] EXCEPT !.quiet = FALSE]]
    /\ UNCHANGED pc

\* a user creates, updates or deletes a claim
ExtPvc(key, obj) ==
    /\ nchanges < MaxChanges
    /\ obj # apiPvc[key]
    /\ (apiPvc[key] # Nil /\ apiPvc[key].deletionTimestamp) => obj = Nil
    /\ apiPvc' = [apiPvc EXCEPT ![key] = obj]
    /\ pvcEvents' = Append(pvcEvents, [key |-> key, obj |-> obj])
    /\ Disturb
    /\ UNCHANGED <<apiNs, apiVr, apiSc, vrcs, apiUp, cacheVars, nsEvents, vrEvents, queueVars>>

\* a user changes the annotations of a namespace
ExtNs(n, obj) ==
    /\ nchanges < MaxChanges
    /\ obj # apiNs[n]
    /\ apiNs' = [apiNs EXCEPT ![n] = obj]
    /\ nsEvents' = Append(nsEvents, [key |-> n, obj |-> obj])
    /\ Disturb
    /\ UNCHANGED <<apiPvc, apiVr, apiSc, vrcs, apiUp, cacheVars, pvcEvents, vrEvents, queueVars>>

\* someone else creates, updates or deletes a VolumeReplication
ExtVr(key, obj) ==
    /\ nchanges < MaxChanges
    /\ obj # apiVr[key]
    /\ apiVr' = [apiVr EXCEPT ![key] = obj]
    /\ vrEvents' = Append(vrEvents, [key |-> key, obj |-> obj])
    /\ Disturb
    /\ UNCHANGED <<apiPvc, apiNs, apiSc, vrcs, apiUp, cacheVars, pvcEvents, nsEvents, queueVars>>

\* an operator adds or removes a VolumeReplicationClass
ExtVrc(v) ==
    /\ nchanges < MaxChanges
    /\ vrcs' = IF v \in vrcs THEN vrcs \ {v} ELSE vrcs \cup {v}
    /\ Disturb
    /\ UNCHANGED <<apiPvc, apiNs, apiVr, apiSc, apiUp, cacheVars, eventVars, queueVars>>

\* an operator relabels the StorageClass
ExtSc(labels) ==
    /\ nchanges < MaxChanges
    /\ labels # apiSc["fast"]
    /\ apiSc' = [apiSc EXCEPT !["fast"] = labels]
    /\ Disturb
    /\ UNCHANGED <<apiPvc, apiNs, apiVr, vrcs, apiUp, cacheVars, eventVars, queueVars>>

\* the API server stops or resumes answering
ExtApi ==
    /\ nchanges < MaxChanges
    /\ apiUp' = ~apiUp
    /\ Disturb
    /\ UNCHANGED <<apiPvc, apiNs, apiVr, apiSc, vrcs, cacheVars, eventVars, queueVars>>

\* ------------------------------------------------------------------------
\* Informers: a watch event updates the cache and runs the handler
\* ------------------------------------------------------------------------
\* the process runs: no handler has panicked and it has not exited
Alive == \A w \in DOMAIN pc : pc[w] \notin {"crashed", "exited", "killed"}

\* a delete that the watch missed reaches DeleteFunc, after the relist, as
\* a cache.DeletedFinalStateUnknown in place of the object
IsTombstone(e) == "tombstone" \in DOMAIN e

\* obj.(*T) on a value of another type panics in the informer's goroutine;
\* nothing recovers the panic and the process ends
Panic == pc' = [w \in DOMAIN pc |-> "crashed"]

\* createPvcInformer: AddFunc, UpdateFunc and DeleteFunc all call pvcUpdate
\* on obj.(*corev1.PersistentVolumeClaim)
DeliverPvc ==
    /\ Alive
    /\ pvcEvents # <<>>
    /\ LET e == Head(pvcEvents)
           old == pvcCache[e.key]
       IN /\ pvcCache' = [pvcCache EXCEPT ![e.key] = e.obj]
          /\ IF IsTombstone(e)
             THEN Panic /\ UNCHANGED queueVars
             ELSE /\ SetQueue(pvcUpdate(QueueState, IF e.obj = Nil THEN old ELSE e.obj))
                  /\ UNCHANGED pc
    /\ pvcEvents' = Tail(pvcEvents)
    /\ UNCHANGED <<apiVars, nsCache, vrCache, nsEvents, vrEvents, inv, last, nchanges>>

\* createNamespaceInformer: UpdateFunc calls namespaceUpdate
DeliverNs ==
    /\ Alive
    /\ nsEvents # <<>>
    /\ LET e == Head(nsEvents)
           old == nsCache[e.key]
       IN /\ nsCache' = [nsCache EXCEPT ![e.key] = e.obj]
          /\ \E order \in Orders(PvcKeysIn(e.obj.name)) :
                SetQueue(namespaceUpdate(QueueState, old, e.obj, order))
    /\ nsEvents' = Tail(nsEvents)
    /\ UNCHANGED <<apiVars, pvcCache, vrCache, pvcEvents, vrEvents, workerVars, nchanges>>

\* createVolumeReplicationInformer: AddFunc and DeleteFunc call
\* volumeReplicationCreateOrDelete, UpdateFunc calls volumeReplicationUpdate,
\* each on obj.(*unstructured.Unstructured)
DeliverVr ==
    /\ Alive
    /\ vrEvents # <<>>
    /\ LET e == Head(vrEvents)
           old == vrCache[e.key]
       IN /\ vrCache' = [vrCache EXCEPT ![e.key] = e.obj]
          /\ IF IsTombstone(e)
             THEN Panic /\ UNCHANGED queueVars
             ELSE /\ SetQueue(IF old = Nil
                              THEN volumeReplicationCreateOrDelete(QueueState, e.obj)
                              ELSE IF e.obj = Nil
                                   THEN volumeReplicationCreateOrDelete(QueueState, old)
                                   ELSE volumeReplicationUpdate(QueueState, old, e.obj))
                  /\ UNCHANGED pc
    /\ vrEvents' = Tail(vrEvents)
    /\ UNCHANGED <<apiVars, pvcCache, nsCache, pvcEvents, nsEvents, inv, last, nchanges>>

\* the periodic resync (every `resync`): the claim informer's UpdateFunc runs
\* for every cached claim; the namespace and descriptor handlers see equal
\* old and new objects and enqueue nothing
Resync ==
    /\ Alive
    /\ UNION { PvcKeysIn(n) : n \in Namespaces } # {}
    /\ \E order \in Orders(UNION { PvcKeysIn(n) : n \in Namespaces }) :
          SetQueue(QueueAddAll(QueueState, order))
    /\ UNCHANGED <<apiVars, cacheVars, eventVars, workerVars, nchanges>>

\* ------------------------------------------------------------------------
\* Worker loop: processNextItem
\* ------------------------------------------------------------------------
Invocation(key) ==
    [key |-> key, pvc |-> Nil, vr |-> Nil, class |-> "", env |-> <<>>,
     classAtCall |-> "", envAtCall |-> <<>>,
     calls |-> <<>>, quiet |-> FALSE, prev |-> Nil]

\* key, quit := c.pvcQueue.Get()
Get(w) ==
    /\ pc[w] = "idle"
    /\ queue # <<>>
    /\ LET key == Head(queue)
       IN /\ queue' = Tail(queue)
          /\ processing' = processing \cup {key}
          /\ dirty' = dirty \ {key}
          /\ inv' = [inv EXCEPT ![w] = Invocation(key)]
    /\ pc' = [pc EXCEPT ![w] = "reconcile"]
    /\ UNCHANGED <<apiVars, cacheVars, eventVars, last, nchanges>>

\* faulty variant: a missing descriptor also ends the invocation
notOwned_OrMissing(volumeReplication) ==
    volumeReplication = Nil \/ ~isParentLabelPresent(volumeReplication.labels)

\* "If the VR exists, and it isn't owned by our controller, do not proceed"
notOwned(volumeReplication) ==
    volumeReplication # Nil /\ ~isParentLabelPresent(volumeReplication.labels)

\* faulty variant: the deletion timestamp is not looked at
pvcGone_NilOnly(pvc) == pvc = Nil

\* "The PVC got deleted"
pvcGone(pvc) == pvc = Nil \/ pvc.deletionTimestamp

\* faulty variant: deletes only when both tests fail
nonConforming_Both(volumeReplication, vrcExists, vrCorrect) ==
    volumeReplication # Nil /\ (~vrcExists /\ ~vrCorrect)

\* the descriptor exists and does not conform any more
nonConforming(volumeReplication, vrcExists, vrCorrect) ==
    volumeReplication # Nil /\ (~vrcExists \/ ~vrCorrect)

\* faulty variants: one of the two tests of the create condition lost or inverted
mustCreate_NoNilCheck(volumeReplication, replicationClass) == replicationClass # ""

mustCreate_NoClassCheck(volumeReplication, replicationClass) == volumeReplication = Nil

mustCreate_WrongNilCheck(volumeReplication, replicationClass) ==
    volumeReplication # Nil /\ replicationClass # ""

\* "No volume replication object was found for this PVC, we need to create it"
mustCreate(volumeReplication, replicationClass) ==
    volumeReplication = Nil /\ replicationClass # ""

\* faulty variant: the replacement is created in the same invocation
afterCleanup_Recreate(replicationClass) ==
    IF replicationClass # "" THEN "create" ELSE "done"

\* where the invocation goes after deleting a non-conforming descriptor:
\* it returns, the replacement is left to a later invocation
afterCleanup(replicationClass) == "done"

\* reconcileVolumeReplication up to its decision: the delete paths end the
\* invocation, the create path continues in reconcileCreate.  The cache
\* reads, the resolution of the class and the second resolution made by
\* isVolumeReplicationCorrect are taken on one snapshot; the Delete takes
\* effect on the API server, which the caches may lag behind.
reconcileVolumeReplication(w) ==
    /\ pc[w] = "reconcile"
    /\ LET key == inv[w].key
           namespace == SplitNamespace(key)
           name == SplitName(key)
           pvc == getPersistentVolumeClaim(key)
           volumeReplication == getVolumeReplication(key)
           seen == [inv[w] EXCEPT !.pvc = pvc, !.vr = volumeReplication,
                                  !.env = ResolverEnv, !.quiet = NoPendingEvents,
                                  !.prev = last[key]]
           deleted == cleanupVolumeReplication(name, namespace)
           replicationClass == getVolumeReplicationClass(pvc)
           vrcExists == replicationClass # ""
           vrCorrect == isVolumeReplicationCorrect(pvc, volumeReplication)
       IN IF notOwned(volumeReplication)
          THEN /\ inv' = [inv EXCEPT ![w] = seen]
               /\ pc' = [pc EXCEPT ![w] = "done"]
               /\ UNCHANGED <<apiVr, vrEvents>>
          ELSE IF pvcGone(pvc)
          THEN /\ inv' = [inv EXCEPT ![w] = [seen EXCEPT !.calls = Append(@, deleted.call)]]
               /\ pc' = [pc EXCEPT ![w] = "done"]
               /\ apiVr' = deleted.apiVr
               /\ vrEvents' = deleted.vrEvents
          ELSE IF nonConforming(volumeReplication, vrcExists, vrCorrect)
          THEN /\ inv' = [inv EXCEPT ![w] = [seen EXCEPT !.class = replicationClass,
                                                         !.calls = Append(@, deleted.call)]]
               /\ pc' = [pc EXCEPT ![w] = afterCleanup(replicationClass)]
               /\ apiVr' = deleted.apiVr
               /\ vrEvents' = deleted.vrEvents
          ELSE /\ inv' = [inv EXCEPT ![w] = [seen EXCEPT !.class = replicationClass]]
               /\ pc' = [pc EXCEPT ![w] =
                            IF mustCreate(volumeReplication, replicationClass)
                            THEN "create" ELSE "done"]
               /\ UNCHANGED <<apiVr, vrEvents>>
    /\ UNCHANGED <<apiPvc, apiNs, apiSc, vrcs, apiUp, cacheVars, pvcEvents, nsEvents,
                   queueVars, last, nchanges>>

\* the create path of reconcileVolumeReplication: createVolumeReplication
\* resolves the class again while it builds the descriptor
reconcileCreate(w) ==
    /\ pc[w] = "create"
    /\ LET created == createVolumeReplication(inv[w].pvc)
       IN /\ inv' = [inv EXCEPT ![w].calls = Append(@, created.call),
                                ![w].classAtCall = getVolumeReplicationClass(inv[w].pvc),
                                ![w].envAtCall = ResolverEnv]
          /\ apiVr' = created.apiVr
          /\ vrEvents' = created.vrEvents
    /\ pc' = [pc EXCEPT ![w] = "done"]
    /\ UNCHANGED <<apiPvc, apiNs, apiSc, vrcs, apiUp, cacheVars, pvcEvents, nsEvents,
                   queueVars, last, nchanges>>

\* defer c.pvcQueue.Done(key)
Done(w) ==
    /\ pc[w] = "done"
    /\ LET key == inv[w].key
       IN /\ processing' = processing \ {key}
          /\ queue' = IF key \in dirty THEN Append(queue, key) ELSE queue
          /\ last' = [last EXCEPT ![key] = [calls |-> inv[w].calls, quiet |-> inv[w].quiet]]
    /\ pc' = [pc EXCEPT ![w] = "idle"]
    /\ UNCHANGED <<apiVars, cacheVars, eventVars, dirty, inv, nchanges>>

Next ==
    \/ \E k \in Keys : \E obj \in PvcValues(k) \cup {Nil} : ExtPvc(k, obj)
    \/ \E n \in Namespaces : \E obj \in NsValues(n) : ExtNs(n, obj)
    \/ \E k \in Keys : \E obj \in ExternalVrs(k) \cup {Nil} : ExtVr(k, obj)
    \/ \E v \in VrcPool : ExtVrc(v)
    \/ \E labels \in ScValues : ExtSc(labels)
    \/ ExtApi
    \/ DeliverPvc
    \/ DeliverNs
    \/ DeliverVr
    \/ Resync
    \/ \E w \in Workers : Get(w)
    \/ \E w \in Workers : reconcileVolumeReplication(w)
    \/ \E w \in Workers : reconcileCreate(w)
    \/ \E w \in Workers : Done(w)

Spec == Init /\ [][Next]_vars

\* ------------------------------------------------------------------------
\* Properties
\* ------------------------------------------------------------------------
\* the invocations that have run to their end
Completed(w) == inv[w] # Nil /\ pc[w] \in {"done", "idle"}

\* what an invocation found in the caches
Owned(vr) == ParentLabel \in DOMAIN vr.labels /\ vr.labels[ParentLabel] # ""
FoundUnowned(i) == i.vr # Nil /\ ~Owned(i.vr)
FoundOwned(i) == i.vr # Nil /\ Owned(i.vr)
ClaimAbsent(i) == i.pvc = Nil
ClaimMarkedForDeletion(i) == i.pvc # Nil /\ i.pvc.deletionTimestamp
ClaimActive(i) == i.pvc # Nil /\ ~i.pvc.deletionTimestamp
References(vr, pvc) ==
    /\ {"apiGroup", "kind", "name"} \subseteq DOMAIN vr.spec.dataSource
    /\ vr.spec.dataSource["apiGroup"] = "v1"
    /\ vr.spec.dataSource["kind"] = "PersistentVolumeClaim"
    /\ vr.spec.dataSource["name"] = pvc.name
Conforms(i) == i.vr.spec.volumeReplicationClass = i.class /\ References(i.vr, i.pvc)

\* the calls an invocation issued
Verbs(i) == [n \in 1..Len(i.calls) |-> i.calls[n].verb]
OneDelete(i) == Verbs(i) = <<"delete">> /\ i.calls[1].key = i.key
OneCreate(i) == Verbs(i) = <<"create">> /\ i.calls[1].key = i.key
NoCall(i) == i.calls = <<>>

\* C1: an invocation that finds a descriptor without a non-empty parent
\* label issues no create and no delete, whatever the claim's state and
\* whatever policy resolves
C1_UnownedUntouched ==
    \A w \in Workers : (Completed(w) /\ FoundUnowned(inv[w])) => NoCall(inv[w])

C1_Witness ==
    \E w \in Workers :
        /\ Completed(w)
        /\ FoundUnowned(inv[w])
        /\ ClaimAbsent(inv[w])
        /\ apiVr[inv[w].key] = inv[w].vr

\* C2: a delete call of the reconciler never removes from the API a
\* descriptor that lacks the parent label when the call takes effect
C2_DeleteRemovesOnlyOwned ==
    \A w \in Workers :
        inv[w] # Nil =>
            \A n \in 1..Len(inv[w].calls) :
                (inv[w].calls[n].verb = "delete" /\ inv[w].calls[n].result = "ok")
                    => Owned(inv[w].calls[n].obj)

\* C3: claim absent or marked for deletion, owned descriptor found: exactly
\* one delete call for the key and no create
C3_GoneClaimDeletes ==
    \A w \in Workers :
        (/\ Completed(w)
         /\ ClaimAbsent(inv[w]) \/ ClaimMarkedForDeletion(inv[w])
         /\ FoundOwned(inv[w]))
            => OneDelete(inv[w])

C3_Witness ==
    \E w \in Workers :
        /\ Completed(w)
        /\ ClaimMarkedForDeletion(inv[w])
        /\ MapGet(inv[w].pvc.annotations, VrcValueAnnotation) = "gold"
        /\ FoundOwned(inv[w])
        /\ inv[w].vr.spec.volumeReplicationClass = "gold"
        /\ inv[w].calls[1].result = "ok"

\* C4: active claim, no descriptor found, a policy resolves: exactly one
\* create call and no delete
C4_MissingDescriptorCreated ==
    \A w \in Workers :
        (/\ Completed(w)
         /\ ClaimActive(inv[w])
         /\ inv[w].vr = Nil
         /\ inv[w].class # "")
            => OneCreate(inv[w])

C4_Witness ==
    \E w \in Workers :
        /\ Completed(w)
        /\ ClaimActive(inv[w])
        /\ inv[w].vr = Nil
        /\ inv[w].class = "vrc-daily"
        /\ inv[w].calls[1].result = "ok"
        /\ apiVr[inv[w].key] = inv[w].calls[1].obj

C6_NonConformingDeleted ==
    \A w \in Workers :
        (/\ Completed(w)
         /\ ClaimActive(inv[w])
         /\ FoundOwned(inv[w])
         /\ inv[w].class = "" \/ ~Conforms(inv[w]))
            => OneDelete(inv[w])

C6_Witness ==
    \E w \in Workers :
        /\ Completed(w)
        /\ ClaimActive(inv[w])
        /\ FoundOwned(inv[w])
        /\ inv[w].class = "gold"
        /\ inv[w].vr.spec.volumeReplicationClass = "bronze"
        /\ inv[w].calls[1].result = "ok"
        /\ apiVr[inv[w].key] = Nil

\* C7: active claim, owned descriptor found that carries the resolved
\* non-empty policy and references the claim: no create, no delete
C7_ConformingUntouched ==
    \A w \in Workers :
        (/\ Completed(w)
         /\ ClaimActive(inv[w])
         /\ FoundOwned(inv[w])
         /\ inv[w].class # ""
         /\ Conforms(inv[w]))
            => NoCall(inv[w])

C7_Witness ==
    \E w \in Workers :
        /\ Completed(w)
        /\ ClaimActive(inv[w])
        /\ FoundOwned(inv[w])
        /\ inv[w].class = "gold"
        /\ Conforms(inv[w])
        /\ apiVr[inv[w].key] = inv[w].vr

\* C8: active claim, no descriptor found, no policy resolves: no create,
\* no delete
C8_NothingToDo ==
    \A w \in Workers :
        (/\ Completed(w)
         /\ ClaimActive(inv[w])
         /\ inv[w].vr = Nil
         /\ inv[w].class = "")
            => NoCall(inv[w])

C8_Witness ==
    \E w \in Workers :
        /\ Completed(w)
        /\ ClaimActive(inv[w])
        /\ inv[w].vr = Nil
        /\ inv[w].class = ""
        /\ MapGet(inv[w].pvc.annotations, VrcSelectorAnnotation) = "daily"

\* the rows of the decision table that decide to do nothing
NoOpDecision(i) ==
    \/ FoundUnowned(i)
    \/ ClaimActive(i) /\ FoundOwned(i) /\ i.class # "" /\ Conforms(i)
    \/ ClaimActive(i) /\ i.vr = Nil /\ i.class = ""

\* C9: an invocation issues at most one create or delete call, and none
\* when its decision is to do nothing
C9_AtMostOneCall ==
    \A w \in Workers :
        inv[w] # Nil =>
            /\ Len(inv[w].calls) <= 1
            /\ (Completed(w) /\ NoOpDecision(inv[w])) => NoCall(inv[w])

C9_Witness ==
    \E w \in Workers :
        /\ Completed(w)
        /\ Len(inv[w].calls) = 1
        /\ inv[w].calls[1].result = "error"

\* C16: the reconciler issues no create call for a claim whose name matches
\* the configured exclusion regular expression
C16_ExcludedNeverCreated ==
    \A w \in Workers :
        inv[w] # Nil =>
            \A n \in 1..Len(inv[w].calls) :
                inv[w].calls[n].verb = "create" => ~pvcNameMatchesExclusion(inv[w].pvc)

\* two invocations in a row for a key: the first started with the caches
\* in sync, the second with the first one's effect observed, and nothing
\* changed from outside since the first started
SecondRun(w) ==
    /\ Completed(w)
    /\ inv[w].prev # Nil
    /\ inv[w].prev.quiet
    /\ inv[w].quiet

\* C10 as claimed: the second of two invocations in a row issues no create
\* and no delete, from every starting state
C10_SecondRunNoCall ==
    \A w \in Workers : SecondRun(w) => NoCall(inv[w])

FirstCall(i) == i.prev.calls[1]

\* C10 as amended: the second invocation issues no call when the first
\* issued none or created the descriptor; after a delete it may issue one
\* call, the create of the replacement (active claim with a policy) or the
\* same delete again (claim absent or marked for deletion); only a call
\* that failed is issued again with a chance of effect, and the only call
\* of a second invocation that takes effect is the create of a replacement
C10_SecondRunAmended ==
    \A w \in Workers :
        SecondRun(w) =>
            LET i == inv[w]
            IN /\ i.prev.calls = <<>> => NoCall(i)
               /\ (i.prev.calls # <<>> /\ FirstCall(i).verb = "create"
                      /\ FirstCall(i).result = "ok") => NoCall(i)
               /\ \A n \in 1..Len(i.calls) :
                     /\ i.prev.calls # <<>>
                     /\ i.calls[n].verb = "delete" =>
                           /\ FirstCall(i).verb = "delete"
                           /\ \/ ClaimAbsent(i) \/ ClaimMarkedForDeletion(i)
                              \/ FirstCall(i).result = "error"
                           /\ i.calls[n].result # "ok"
                     /\ i.calls[n].verb = "create" =>
                           \/ FirstCall(i).verb = "delete" /\ FirstCall(i).result = "ok"
                                 /\ ClaimActive(i) /\ i.class # ""
                           \/ FirstCall(i).verb = "create" /\ FirstCall(i).result = "error"

C10_Witness ==
    \E w \in Workers :
        /\ SecondRun(w)
        /\ inv[w].prev.calls # <<>>
        /\ FirstCall(inv[w]).verb = "create"
        /\ FirstCall(inv[w]).result = "ok"
        /\ inv[w].vr = FirstCall(inv[w]).obj
        /\ NoCall(inv[w])

\* the delete call of an invocation was answered not-found, or failed
DeleteAnswered(i, result) ==
    /\ i # Nil
    /\ i.calls # <<>>
    /\ i.calls[1].verb = "delete"
    /\ i.calls[1].result = result

\* C29: a delete answered not-found is taken as success, the descriptor
\* being absent and nothing changed or queued again, and a delete that
\* fails otherwise is only logged; either way the invocation ends there,
\* without a panic and without a further call
C29_DeleteFailureTolerated ==
    /\ [](\A w \in Workers :
            (DeleteAnswered(inv[w], "notfound") \/ DeleteAnswered(inv[w], "error"))
               => /\ Len(inv[w].calls) = 1
                  /\ pc[w] \in {"done", "idle"})
    /\ [][\A w \in Workers :
            (/\ pc[w] = "reconcile"
             /\ pc'[w] # "reconcile"
             /\ (DeleteAnswered(inv'[w], "notfound") \/ DeleteAnswered(inv'[w], "error")))
               => /\ pc'[w] = "done"
                  /\ UNCHANGED <<apiVr, vrEvents, queueVars>>
                  /\ DeleteAnswered(inv'[w], "notfound") => apiVr'[inv'[w].key] = Nil]_vars

\* the delete of a descriptor that no longer conforms failed while the claim
\* is active and a class resolves, and the invocation has ended
C29_Witness ==
    \E w \in Workers :
        /\ DeleteAnswered(inv[w], "error")
        /\ ClaimActive(inv[w])
        /\ inv[w].class # ""
        /\ pc[w] = "idle"
        /\ last[inv[w].key].calls = inv[w].calls

\* C32: the class written into a descriptor by a create is never empty and
\* is the class resolved in the decision step of the same invocation, also
\* when namespace annotations, classes or storage-class labels change
\* between that resolution and the one made while the descriptor is built
C32_CreatedClassIsDecided ==
    \A w \in Workers :
        inv[w] # Nil =>
            \A n \in 1..Len(inv[w].calls) :
                inv[w].calls[n].verb = "create" =>
                    /\ inv[w].calls[n].obj.spec.volumeReplicationClass # ""
                    /\ inv[w].calls[n].obj.spec.volumeReplicationClass = inv[w].class

\* C33: no create call is issued for a key whose claim, as read at the
\* start of the invocation, is absent from the cache or carries a deletion
\* timestamp
C33_NoCreateForGoneClaim ==
    \A w \in Workers :
        (inv[w] # Nil /\ (ClaimAbsent(inv[w]) \/ ClaimMarkedForDeletion(inv[w])))
            => /\ pc[w] # "create"
               /\ \A n \in 1..Len(inv[w].calls) : inv[w].calls[n].verb # "create"

\* a claim that is being deleted, still annotated with a class and without a
\* descriptor, was reconciled and the invocation has ended
C33_Witness ==
    \E w \in Workers :
        /\ Completed(w)
        /\ ClaimMarkedForDeletion(inv[w])
        /\ VrcValueAnnotation \in DOMAIN inv[w].pvc.annotations
        /\ inv[w].vr = Nil
        /\ inv[w].calls # <<>>

\* C34: with the claim absent from the cache or marked for deletion and no
\* descriptor found for the key, reconcileVolumeReplication still issues
\* exactly one delete call for that namespace and name, not zero calls; the
\* not-found answer is dismissed
C34_DeleteWithoutDescriptor ==
    \A w \in Workers :
        (/\ Completed(w)
         /\ ClaimAbsent(inv[w]) \/ ClaimMarkedForDeletion(inv[w])
         /\ inv[w].vr = Nil)
            => /\ Len(inv[w].calls) = 1
               /\ inv[w].calls[1].verb = "delete"
               /\ inv[w].calls[1].key = inv[w].key
               /\ inv[w].calls[1].result \in {"notfound", "ok", "error"}

\* the claim was absent, no descriptor was cached, and the delete was
\* answered not-found
C34_Witness ==
    \E w \in Workers :
        /\ Completed(w)
        /\ ClaimAbsent(inv[w])
        /\ inv[w].vr = Nil
        /\ inv[w].calls = <<Call("delete", inv[w].key, Nil, "notfound")>>

\* ------------------------------------------------------------------------
\* The controller under fair scheduling: notifications are delivered, the
\* workers run, the informers resync every `resync`, and an API outage ends
\* ------------------------------------------------------------------------
\* the state NewController and LoadInformers leave on a cluster: the caches
\* synced, every cached object notified as added, the workers idle
Started(keys, workers) ==
    /\ pvcCache = apiPvc
    /\ nsCache = apiNs
    /\ vrCache = apiVr
    /\ pvcEvents = <<>>
    /\ nsEvents = <<>>
    /\ vrEvents = <<>>
    /\ dirty = { k \in keys : apiPvc[k] # Nil \/ apiVr[k] # Nil }
    /\ queue \in Orders(dirty)
    /\ processing = {}
    /\ pc = [w \in workers |-> "idle"]
    /\ inv = [w \in workers |-> Nil]
    /\ last = [k \in keys |-> Nil]
    /\ nchanges = 0

\* the namespaces of the fair runs may also carry the selector annotation
LiveNsValues(n) == NsValues(n) \cup { Ns(n, (VrcSelectorAnnotation :> "daily")) }

\* the descriptors the controller itself left behind
OwnedVrs(key) ==
    { v \in ExternalVrs(key) :
        /\ isParentLabelPresent(v.labels)
        /\ v.spec.dataSource = DataSource("v1", "PersistentVolumeClaim", SplitName(key)) }

LiveInit ==
    /\ apiPvc \in { f \in [Keys -> UNION { ActivePvcs(k) : k \in Keys } \cup {Nil}] :
                      \A k \in Keys : f[k] = Nil \/ f[k] \in ActivePvcs(k) }
    /\ apiNs \in { f \in [Namespaces -> UNION { LiveNsValues(n) : n \in Namespaces }] :
                     \A n \in Namespaces : f[n] \in LiveNsValues(n) }
    /\ apiVr \in { f \in [Keys -> UNION { OwnedVrs(k) : k \in Keys } \cup {Nil}] :
                     \A k \in Keys : f[k] = Nil \/ f[k] \in OwnedVrs(k) }
    /\ apiSc = ("fast" :> (StorageClassGroup :> "ceph"))
    /\ vrcs = { Vrc("vrc-daily", DailyLabels, "rbd.csi") }
    /\ apiUp = TRUE
    /\ Started(Keys, Workers)

\* the API server answers again
Recover ==
    /\ ~apiUp
    /\ apiUp' = TRUE
    /\ inv' = [w \in DOMAIN inv |-> IF inv[w] = Nil THEN Nil ELSE [inv[w] EXCEPT !.quiet = FALSE]]
    /\ last' = [k \in DOMAIN last |-> IF last[k] = Nil THEN Nil ELSE [last[k] EXCEPT !.quiet = FALSE]]
    /\ UNCHANGED <<apiPvc, apiNs, apiVr, apiSc, vrcs, cacheVars, eventVars, queueVars, pc,
                   nchanges>>

LiveNext ==
    \/ \E k \in Keys : \E obj \in PvcValues(k) \cup {Nil} : ExtPvc(k, obj)
    \/ \E n \in Namespaces : \E obj \in LiveNsValues(n) : ExtNs(n, obj)
    \/ apiUp /\ ExtApi
    \/ Recover
    \/ DeliverPvc
    \/ DeliverNs
    \/ DeliverVr
    \/ Resync
    \/ \E w \in Workers : Get(w)
    \/ \E w \in Workers : reconcileVolumeReplication(w)
    \/ \E w \in Workers : reconcileCreate(w)
    \/ \E w \in Workers : Done(w)

\* the watch delivers every event, the resync timer fires, each worker
\* loop keeps running, and an outage of the API server is transient
Fairness ==
    /\ WF_vars(DeliverPvc)
    /\ WF_vars(DeliverNs)
    /\ WF_vars(DeliverVr)
    /\ WF_vars(Resync)
    /\ WF_vars(Recover)
    /\ \A w \in Workers :
          /\ WF_vars(Get(w))
          /\ WF_vars(reconcileVolumeReplication(w))
          /\ WF_vars(reconcileCreate(w))
          /\ WF_vars(Done(w))

FairSpec == LiveInit /\ [][LiveNext]_vars /\ Fairness

\* the policy that objects call for: the claim pvc in the namespace ns
\* (Nil: namespace unknown), with the storage classes and the policies of
\* the API server
AnnotationOf(pvc, ns, annotation) ==
    IF annotation \in DOMAIN pvc.annotations /\ pvc.annotations[annotation] # ""
    THEN pvc.annotations[annotation]
    ELSE IF ns # Nil /\ annotation \in DOMAIN ns.annotations
         THEN ns.annotations[annotation]
         ELSE ""
EffectiveProvisioner(pvc) ==
    IF StorageProvisionerAnnotation \in DOMAIN pvc.annotations
       /\ pvc.annotations[StorageProvisionerAnnotation] # ""
    THEN pvc.annotations[StorageProvisionerAnnotation]
    ELSE IF DeprecatedStorageProvisionerAnnotation \in DOMAIN pvc.annotations
         THEN pvc.annotations[DeprecatedStorageProvisionerAnnotation]
         ELSE ""
GroupOf(pvc) ==
    IF pvc.storageClassName \in DOMAIN apiSc
       /\ StorageClassGroup \in DOMAIN apiSc[pvc.storageClassName]
    THEN apiSc[pvc.storageClassName][StorageClassGroup]
    ELSE ""
Carries(v, group, tag) ==
    /\ group # ""
    /\ tag # ""
    /\ StorageClassGroup \in DOMAIN v.labels
    /\ v.labels[StorageClassGroup] = group
    /\ VrcSelectorAnnotation \in DOMAIN v.labels
    /\ v.labels[VrcSelectorAnnotation] = tag
PassesFilter(v, pvc) ==
    EffectiveProvisioner(pvc) = "" \/ v.provisioner = EffectiveProvisioner(pvc)
Candidates(pvc, ns) ==
    { v \in vrcs :
        /\ Carries(v, GroupOf(pvc), AnnotationOf(pvc, ns, VrcSelectorAnnotation))
        /\ PassesFilter(v, pvc) }
PolicyFor(pvc, ns) ==
    IF AnnotationOf(pvc, ns, VrcValueAnnotation) # ""
    THEN AnnotationOf(pvc, ns, VrcValueAnnotation)
    ELSE IF Cardinality(Candidates(pvc, ns)) # 1
         THEN ""
         ELSE (CHOOSE v \in Candidates(pvc, ns) : TRUE).name
Wanted(k) ==
    IF apiPvc[k] = Nil \/ apiPvc[k].deletionTimestamp
    THEN ""
    ELSE PolicyFor(apiPvc[k], apiNs[apiPvc[k].namespace])

\* an owned descriptor whose recorded policy is not the one called for
Drift(k) ==
    /\ Wanted(k) # ""
    /\ apiVr[k] # Nil
    /\ Owned(apiVr[k])
    /\ apiVr[k].spec.volumeReplicationClass # Wanted(k)
Healed(k) == apiVr[k] # Nil /\ apiVr[k].spec.volumeReplicationClass = Wanted(k)

\* the invocation that follows, with nothing changed from outside, an
\* invocation that deleted a descriptor of another policy than the one
\* that resolves
AfterDriftDelete(w) ==
    /\ SecondRun(w)
    /\ ClaimActive(inv[w])
    /\ inv[w].class # ""
    /\ inv[w].prev.calls # <<>>
    /\ FirstCall(inv[w]).verb = "delete"
    /\ FirstCall(inv[w]).result = "ok"
    /\ FirstCall(inv[w]).obj.spec.volumeReplicationClass # inv[w].class

\* C11: an owned descriptor of an active claim whose recorded policy is not
\* the non-empty policy that resolves is replaced: unless no policy resolves
\* any more, a descriptor carrying the resolved policy eventually exists; and the
\* invocation that observes the deletion issues exactly one call, the
\* create of a descriptor that carries the policy resolved now, never the
\* deleted one's
C11_DriftSelfHeal ==
    /\ \A k \in Keys : Drift(k) ~> (Healed(k) \/ Wanted(k) = "")
    /\ [](\A w \in Workers :
            AfterDriftDelete(w) =>
                /\ OneCreate(inv[w])
                /\ inv[w].calls[1].result = "ok"
                /\ inv[w].calls[1].obj.spec.volumeReplicationClass = inv[w].class
                /\ inv[w].calls[1].obj.spec.volumeReplicationClass
                      # FirstCall(inv[w]).obj.spec.volumeReplicationClass)

C11_Witness ==
    \E w \in Workers :
        /\ AfterDriftDelete(w)
        /\ FirstCall(inv[w]).obj.spec.volumeReplicationClass = "bronze"
        /\ inv[w].class = "gold"
        /\ apiVr[inv[w].key] = inv[w].calls[1].obj
        /\ Wanted(inv[w].key) = "gold"
        /\ Healed(inv[w].key)

\* an owned descriptor that nothing calls for: its claim is gone or marked
\* for deletion, or no policy resolves for the claim any more
Stale(k) == apiVr[k] # Nil /\ Owned(apiVr[k]) /\ Wanted(k) = ""

\* C17: an owned descriptor whose claim was deleted, or for whose claim no
\* policy resolves any more, is eventually deleted (unless a policy
\* resolves again)
C17_StaleEventuallyDeleted ==
    \A k \in Keys : Stale(k) ~> (apiVr[k] = Nil \/ Wanted(k) # "")

\* an active claim for which a policy resolves and no descriptor exists
Missing(k) == apiVr[k] = Nil /\ Wanted(k) # ""

\* C18: for an active claim for which a policy resolves, through its own
\* or its namespace's class or classSelector annotation, and that has no
\* descriptor, a descriptor eventually exists (unless the policy stops
\* resolving or the claim goes away)
C18_MissingEventuallyCreated ==
    \A k \in Keys : Missing(k) ~> (apiVr[k] # Nil \/ Wanted(k) = "")

C18_Witness ==
    \E w \in Workers :
        /\ Completed(w)
        /\ OneCreate(inv[w])
        /\ inv[w].calls[1].result = "ok"
        /\ inv[w].pvc.annotations = EmptyMap
        /\ VrcSelectorAnnotation \in DOMAIN apiNs[inv[w].pvc.namespace].annotations
        /\ Wanted(inv[w].key) = "vrc-daily"
        /\ apiVr[inv[w].key] = inv[w].calls[1].obj
        /\ apiVr[inv[w].key].spec.volumeReplicationClass = "vrc-daily"

\* C20: when the call of an invocation failed, the key is back in the queue
\* once the worker is done with it
C20_FailedCallRequeued ==
    \A w \in Workers :
        (/\ inv[w] # Nil
         /\ pc[w] = "idle"
         /\ inv[w].calls # <<>>
         /\ inv[w].calls[Len(inv[w].calls)].result = "error")
            => inv[w].key \in dirty

\* ------------------------------------------------------------------------
\* The policy resolver on its own: every input it reads is drawn from a
\* bounded set, and the resolver's functions are applied to it
\* ------------------------------------------------------------------------
Optional(annotation, values) == {EmptyMap} \cup { (annotation :> v) : v \in values }

\* the annotations of the claims handed to the resolver
ResolverAnnotations ==
    { a @@ b @@ c @@ d :
        a \in Optional(VrcValueAnnotation, {"", "gold"}),
        b \in Optional(VrcSelectorAnnotation, {"daily"}),
        c \in Optional(StorageProvisionerAnnotation, {"", "rbd.csi"}),
        d \in Optional(DeprecatedStorageProvisionerAnnotation, {"cephfs.csi"}) }

\* without a storage class, with one the API server has, with one it has not
ResolverPvcs(key) ==
    { Pvc(SplitNamespace(key), SplitName(key), annotations, EmptyMap, sc, FALSE) :
        annotations \in ResolverAnnotations, sc \in {NoStorageClass, "fast", "slow"} }

\* the namespace as NamespaceInformer has it (Nil: not in the cache)
ResolverNss(n) ==
    {Nil} \cup { Ns(n, a @@ b) : a \in Optional(VrcValueAnnotation, {"silver"}),
                                b \in Optional(VrcSelectorAnnotation, {"weekly"}) }

WeeklyLabels == (StorageClassGroup :> "ceph") @@ (VrcSelectorAnnotation :> "weekly")
ResolverVrcPool ==
    { Vrc("vrc-daily", DailyLabels, "rbd.csi"),
      Vrc("vrc-daily-b", DailyLabels, "rbd.csi"),
      Vrc("vrc-daily-fs", DailyLabels, "cephfs.csi"),
      Vrc("vrc-weekly", WeeklyLabels, "rbd.csi"),
      Vrc("vrc-nfs", (StorageClassGroup :> "nfs") @@ (VrcSelectorAnnotation :> "daily"),
          "rbd.csi") }

ResolverInit ==
    /\ pvcCache \in { f \in [Keys -> UNION { ResolverPvcs(k) : k \in Keys }] :
                        \A k \in Keys : f[k] \in ResolverPvcs(k) }
    /\ apiPvc = pvcCache
    /\ nsCache \in { f \in [Namespaces -> UNION { ResolverNss(n) : n \in Namespaces }] :
                       \A n \in Namespaces : f[n] \in ResolverNss(n) }
    /\ apiNs = [n \in Namespaces |-> IF nsCache[n] = Nil THEN Ns(n, EmptyMap) ELSE nsCache[n]]
    /\ apiVr = [k \in Keys |-> Nil]
    /\ vrCache = apiVr
    /\ apiSc \in { ("fast" :> labels) : labels \in ScValues }
    /\ vrcs \in SUBSET ResolverVrcPool
    /\ apiUp \in BOOLEAN
    /\ pvcEvents = <<>>
    /\ nsEvents = <<>>
    /\ vrEvents = <<>>
    /\ queue = <<>>
    /\ dirty = {}
    /\ processing = {}
    /\ pc = [w \in Workers |-> "idle"]
    /\ inv = [w \in Workers |-> Nil]
    /\ last = [k \in Keys |-> Nil]
    /\ nchanges = 0

\* the resolver's functions applied to the cached claim of a key; the
\* filter is also applied for the group "ceph" and the selector "daily"
Resolve(w, key) ==
    /\ inv[w] = Nil
    /\ LET pvc == getPersistentVolumeClaim(key)
       IN inv' = [inv EXCEPT ![w] =
                    [pvc |-> pvc,
                     value |-> getVolumeReplicationClassValue(pvc),
                     selector |-> getVolumeReplicationClassSelector(pvc),
                     provisioner |-> getPvcProvisioner(pvc),
                     filtered |-> filterVrcFromSelector("ceph", "daily",
                                                        getPvcProvisioner(pvc)),
                     fromSelector |-> getVolumeReplicationClassFromSelector(pvc),
                     class |-> getVolumeReplicationClass(pvc)]]
    /\ UNCHANGED <<apiVars, cacheVars, eventVars, queueVars, pc, last, nchanges>>

ResolverNext == \E w \in Workers : \E k \in Keys : Resolve(w, k)

ResolverSpec == ResolverInit /\ [][ResolverNext]_vars

\* the namespace the resolver sees for a claim
SeenNs(pvc) == nsCache[pvc.namespace]
OwnAnnotation(pvc, annotation) ==
    IF annotation \in DOMAIN pvc.annotations THEN pvc.annotations[annotation] ELSE ""

\* C12: the direct value resolved for a claim is the claim's own value
\* annotation when that is non-empty, whatever the namespace carries;
\* when the claim's annotation is missing or empty it is the value
\* annotation of the claim's namespace
C12_ClaimValueFirst ==
    \A w \in Workers :
        inv[w] # Nil =>
            LET pvc == inv[w].pvc
                own == OwnAnnotation(pvc, VrcValueAnnotation)
            IN /\ own # "" => inv[w].value = own
               /\ (own = "" /\ SeenNs(pvc) # Nil) =>
                      inv[w].value = OwnAnnotation(SeenNs(pvc), VrcValueAnnotation)

C12_Witness ==
    \E w \in Workers :
        /\ inv[w] # Nil
        /\ OwnAnnotation(inv[w].pvc, VrcValueAnnotation) = "gold"
        /\ SeenNs(inv[w].pvc) # Nil
        /\ OwnAnnotation(SeenNs(inv[w].pvc), VrcValueAnnotation) = "silver"
        /\ inv[w].value = "gold"

\* C13: when a non-empty direct value resolves (the claim's, else the
\* namespace's), getVolumeReplicationClass returns it, whatever selector
\* resolution would return; otherwise it returns what selector resolution
\* returns
C13_DirectValueWins ==
    \A w \in Workers :
        inv[w] # Nil =>
            LET direct == AnnotationOf(inv[w].pvc, SeenNs(inv[w].pvc), VrcValueAnnotation)
            IN /\ direct # "" => inv[w].class = direct
               /\ direct = "" => inv[w].class = inv[w].fromSelector

C13_Witness ==
    \E w \in Workers :
        /\ inv[w] # Nil
        /\ OwnAnnotation(inv[w].pvc, VrcValueAnnotation) = ""
        /\ OwnAnnotation(inv[w].pvc, VrcSelectorAnnotation) = "daily"
        /\ inv[w].fromSelector = "vrc-daily"
        /\ inv[w].class = "silver"

\* C14: selector resolution returns a name only when exactly one policy
\* carries the labels {group of the claim's storage class, selector tag}
\* and passes the provisioner filter, and the name is that policy's; with
\* none or several it returns ""; and with exactly one, and the API server
\* answering the lookups, it does return the name
C14_ExactlyOneMatch ==
    \A w \in Workers :
        inv[w] # Nil =>
            LET found == Candidates(inv[w].pvc, SeenNs(inv[w].pvc))
            IN /\ inv[w].fromSelector # "" =>
                     /\ Cardinality(found) = 1
                     /\ \E v \in found : v.name = inv[w].fromSelector
               /\ Cardinality(found) # 1 => inv[w].fromSelector = ""
               /\ (Cardinality(found) = 1 /\ apiUp) => inv[w].fromSelector # ""

C14_Witness ==
    \E w \in Workers :
        /\ inv[w] # Nil
        /\ apiUp
        /\ OwnAnnotation(inv[w].pvc, VrcSelectorAnnotation) = "daily"
        /\ EffectiveProvisioner(inv[w].pvc) = "rbd.csi"
        /\ vrcs = ResolverVrcPool \ { Vrc("vrc-daily-b", DailyLabels, "rbd.csi") }
        /\ inv[w].fromSelector = "vrc-daily"

\* C15: with the API server answering, the provisioner filter keeps, of the
\* policies that carry the labels, exactly those whose provisioner equals
\* the claim's effective provisioner, and all of them when that is empty;
\* the effective provisioner is the primary annotation when non-empty,
\* else the deprecated one
C15_ProvisionerFilter ==
    \A w \in Workers :
        (inv[w] # Nil /\ apiUp) =>
            /\ inv[w].provisioner = EffectiveProvisioner(inv[w].pvc)
            /\ ~inv[w].filtered.err
            /\ inv[w].filtered.classes =
                  { v.name : v \in { x \in vrcs : /\ Carries(x, "ceph", "daily")
                                                  /\ PassesFilter(x, inv[w].pvc) } }

C15_Witness ==
    \E w \in Workers :
        /\ inv[w] # Nil
        /\ apiUp
        /\ OwnAnnotation(inv[w].pvc, StorageProvisionerAnnotation) = ""
        /\ StorageProvisionerAnnotation \in DOMAIN inv[w].pvc.annotations
        /\ OwnAnnotation(inv[w].pvc, DeprecatedStorageProvisionerAnnotation) = "cephfs.csi"
        /\ vrcs = ResolverVrcPool
        /\ inv[w].filtered.classes = {"vrc-daily-fs"}

\* the failures and gaps a resolution can meet
NsLookupFails(pvc) ==
    /\ SeenNs(pvc) = Nil
    /\ OwnAnnotation(pvc, VrcValueAnnotation) = ""
NoSelector(i) == i.value = "" /\ i.selector = ""
NoStorageClassRef(i) == i.value = "" /\ i.pvc.storageClassName = NoStorageClass
ScLookupFails(i) ==
    /\ i.value = ""
    /\ i.pvc.storageClassName # NoStorageClass
    /\ (~apiUp \/ i.pvc.storageClassName \notin DOMAIN apiSc)
NoGroupLabel(i) ==
    /\ i.value = ""
    /\ i.pvc.storageClassName \in DOMAIN apiSc
    /\ (StorageClassGroup \notin DOMAIN apiSc[i.pvc.storageClassName]
        \/ apiSc[i.pvc.storageClassName][StorageClassGroup] = "")
ListFails(i) == i.value = "" /\ ~apiUp

\* C28: the resolver is total and never raises; its result is the empty
\* string when the namespace lookup fails, when no selector tag is present,
\* when the claim has no storage class, when the storage class lookup fails
\* or the class has no group label, or when listing the classes fails
C28_EmptyOnFailure ==
    \A w \in Workers :
        (/\ inv[w] # Nil
         /\ \/ NsLookupFails(inv[w].pvc)
            \/ NoSelector(inv[w])
            \/ NoStorageClassRef(inv[w])
            \/ ScLookupFails(inv[w])
            \/ NoGroupLabel(inv[w])
            \/ ListFails(inv[w])) => inv[w].class = ""

\* C28 as it holds: a failed namespace lookup makes the namespace count as
\* carrying no annotation, so the value and the selector are the claim's
\* own; with no direct value the result is the empty string in each of the
\* other cases; the result is always a value, a class name or ""
C28_EmptyOnFailureAmended ==
    \A w \in Workers :
        inv[w] # Nil =>
            LET i == inv[w]
            IN /\ SeenNs(i.pvc) = Nil =>
                     /\ i.value = OwnAnnotation(i.pvc, VrcValueAnnotation)
                     /\ i.selector = OwnAnnotation(i.pvc, VrcSelectorAnnotation)
               /\ (\/ NoSelector(i)
                   \/ NoStorageClassRef(i)
                   \/ ScLookupFails(i)
                   \/ NoGroupLabel(i)
                   \/ ListFails(i)) => i.class = ""
               /\ i.class \in {"", i.value} \cup { v.name : v \in vrcs }

\* the namespace lookup failed and the claim's own selector tag still
\* resolved a class
C28_Witness ==
    \E w \in Workers :
        /\ inv[w] # Nil
        /\ SeenNs(inv[w].pvc) = Nil
        /\ inv[w].value = ""
        /\ inv[w].selector = "daily"
        /\ inv[w].class = "vrc-daily"

\* ------------------------------------------------------------------------
\* Several workers on several keys: Run(ctx, workers) with two workers
\* ------------------------------------------------------------------------
QueueWorkers == {"w1", "w2"}
QueueNames == {"data-1", "data-2"}
QueueKeys == { MetaNamespaceKey(ns, n) : ns \in Namespaces, n \in QueueNames }

\* the claims of the runs with several workers: annotated with a class
QueuePvcs(key) ==
    { p \in ActivePvcs(key) : MapGet(p.annotations, VrcValueAnnotation) # "" }

QueueInit ==
    /\ apiPvc \in { f \in [QueueKeys -> UNION { QueuePvcs(k) : k \in QueueKeys }] :
                      \A k \in QueueKeys : f[k] \in QueuePvcs(k) }
    /\ apiNs = [n \in Namespaces |-> Ns(n, EmptyMap)]
    /\ apiVr \in { f \in [QueueKeys -> UNION { OwnedVrs(k) : k \in QueueKeys } \cup {Nil}] :
                     \A k \in QueueKeys : f[k] = Nil \/ f[k] \in OwnedVrs(k) }
    /\ apiSc = ("fast" :> (StorageClassGroup :> "ceph"))
    /\ vrcs = { Vrc("vrc-daily", DailyLabels, "rbd.csi") }
    /\ apiUp = TRUE
    /\ Started(QueueKeys, QueueWorkers)

\* nothing changes from outside: the keys are enqueued by the first
\* notifications, by every resync and by the notifications of the
\* reconciler's own creates and deletes
QueueNext ==
    \/ DeliverVr
    \/ Resync
    \/ \E w \in QueueWorkers : Get(w)
    \/ \E w \in QueueWorkers : reconcileVolumeReplication(w)
    \/ \E w \in QueueWorkers : reconcileCreate(w)
    \/ \E w \in QueueWorkers : Done(w)

QueueSpec == QueueInit /\ [][QueueNext]_vars

\* a worker between Get and Done, inside reconcileVolumeReplication
Reconciling(w) == pc[w] \in {"reconcile", "create"}

\* C19: two workers are never inside reconcileVolumeReplication for the
\* same key, nor hold the same key between Get and Done
C19_OneWorkerPerKey ==
    \A v, w \in QueueWorkers :
        (v # w /\ pc[v] # "idle" /\ pc[w] # "idle") => inv[v].key # inv[w].key

\* two workers inside reconcileVolumeReplication for distinct keys
C19_Witness ==
    \E v, w \in QueueWorkers :
        /\ v # w
        /\ Reconciling(v)
        /\ Reconciling(w)
        /\ inv[v].key # inv[w].key
        /\ dirty = {inv[v].key}

\* the worker loops keep running: wait.UntilWithContext restarts runWorker,
\* and every call of a reconcile returns
QueueFairness ==
    \A w \in QueueWorkers :
        /\ WF_vars(Get(w))
        /\ WF_vars(reconcileVolumeReplication(w))
        /\ WF_vars(reconcileCreate(w))
        /\ WF_vars(Done(w))

\* two annotated claims, the descriptor of the first one present or not
FairQueueInit ==
    /\ apiPvc \in { f \in [QueueKeys -> UNION { QueuePvcs(k) : k \in QueueKeys }] :
                      \A k \in QueueKeys : f[k] \in QueuePvcs(k) }
    /\ apiNs = [n \in Namespaces |-> Ns(n, EmptyMap)]
    /\ apiVr \in { f \in [QueueKeys -> UNION { OwnedVrs(k) : k \in QueueKeys } \cup {Nil}] :
                     /\ \A k \in QueueKeys : f[k] = Nil \/ f[k] \in OwnedVrs(k)
                     /\ \A k \in QueueKeys : SplitName(k) # "data-1" => f[k] = Nil }
    /\ apiSc = ("fast" :> (StorageClassGroup :> "ceph"))
    /\ vrcs = { Vrc("vrc-daily", DailyLabels, "rbd.csi") }
    /\ apiUp = TRUE
    /\ Started(QueueKeys, QueueWorkers)

FairQueueSpec == FairQueueInit /\ [][QueueNext]_vars /\ QueueFairness

\* how often a key stands in the queue
Pending(k) == Cardinality({ n \in 1..Len(queue) : queue[n] = k })

\* C36: no notification is lost to coalescing: a key enqueued any number
\* of times while pending waits once in the queue, a key enqueued while
\* its reconcile is in flight is queued again when that reconcile is marked
\* done, and every enqueue is followed by a reconcile of the key that
\* starts after the enqueue
C36_NoLostNotification ==
    /\ [](\A k \in QueueKeys :
            /\ Pending(k) <= 1
            /\ Pending(k) = 1 <=> (k \in dirty /\ k \notin processing))
    /\ [][\A w \in QueueWorkers :
            (pc[w] = "done" /\ pc'[w] = "idle" /\ inv[w].key \in dirty)
               => Pending(inv[w].key)' = 1]_vars
    /\ \A k \in QueueKeys :
          (k \in dirty) ~> (k \notin dirty /\ \E w \in QueueWorkers :
                                                pc[w] = "reconcile" /\ inv[w].key = k)

\* a key was enqueued while its reconcile was in flight, and is reconciled
\* again by the worker that has just marked the first reconcile done
C36_Witness ==
    \E w \in QueueWorkers :
        /\ pc[w] = "reconcile"
        /\ last[inv[w].key] # Nil
        /\ inv[w].key \in processing
        /\ inv[w].key \in dirty

\* ------------------------------------------------------------------------
\* The informers under a watch that can miss deletes
\* ------------------------------------------------------------------------
\* the namespaces of these runs may also carry an empty class annotation
WatchNsValues(n) == LiveNsValues(n) \cup { Ns(n, (VrcValueAnnotation :> "")) }

\* a claim is deleted while the watch is disconnected: the relist finds it
\* gone and DeleteFunc receives a cache.DeletedFinalStateUnknown
MissPvcDelete(key) ==
    /\ nchanges < MaxChanges
    /\ apiPvc[key] # Nil
    /\ apiPvc' = [apiPvc EXCEPT ![key] = Nil]
    /\ pvcEvents' = Append(pvcEvents, [key |-> key, obj |-> Nil, tombstone |-> TRUE])
    /\ Disturb
    /\ UNCHANGED <<apiNs, apiVr, apiSc, vrcs, apiUp, cacheVars, nsEvents, vrEvents, queueVars>>

\* the same for a VolumeReplication
MissVrDelete(key) ==
    /\ nchanges < MaxChanges
    /\ apiVr[key] # Nil
    /\ apiVr' = [apiVr EXCEPT ![key] = Nil]
    /\ vrEvents' = Append(vrEvents, [key |-> key, obj |-> Nil, tombstone |-> TRUE])
    /\ Disturb
    /\ UNCHANGED <<apiPvc, apiNs, apiSc, vrcs, apiUp, cacheVars, pvcEvents, nsEvents, queueVars>>

\* the descriptors of these runs: also one whose status the replication
\* operator has filled in
WatchVrs(key) ==
    ExternalVrs(key) \cup
    { [status |-> "Replicating"] @@ v :
        v \in { x \in ExternalVrs(key) :
                  isParentLabelPresent(x.labels) /\ x.spec.volumeReplicationClass = "gold"
                  /\ x.spec.dataSource["name"] = SplitName(key) } }

WatchInit ==
    /\ apiPvc \in { f \in [Keys -> UNION { QueuePvcs(k) : k \in Keys } \cup {Nil}] :
                      \A k \in Keys : f[k] = Nil \/ f[k] \in QueuePvcs(k) }
    /\ apiNs \in { f \in [Namespaces -> UNION { WatchNsValues(n) : n \in Namespaces }] :
                     \A n \in Namespaces : f[n] \in WatchNsValues(n) }
    /\ apiVr \in { f \in [Keys -> UNION { WatchVrs(k) : k \in Keys } \cup {Nil}] :
                     \A k \in Keys : f[k] = Nil \/ f[k] \in WatchVrs(k) }
    /\ apiSc = ("fast" :> (StorageClassGroup :> "ceph"))
    /\ vrcs = { Vrc("vrc-daily", DailyLabels, "rbd.csi") }
    /\ apiUp = TRUE
    /\ Started(Keys, Workers)

WatchNext ==
    \/ \E k \in Keys : \E obj \in PvcValues(k) \cup {Nil} : ExtPvc(k, obj)
    \/ \E n \in Namespaces : \E obj \in WatchNsValues(n) : ExtNs(n, obj)
    \/ \E k \in Keys : \E obj \in WatchVrs(k) \cup {Nil} : ExtVr(k, obj)
    \/ \E k \in Keys : MissPvcDelete(k)
    \/ \E k \in Keys : MissVrDelete(k)
    \/ DeliverPvc
    \/ DeliverNs
    \/ DeliverVr
    \/ Resync
    \/ \E w \in Workers : Get(w)
    \/ \E w \in Workers : reconcileVolumeReplication(w)
    \/ \E w \in Workers : reconcileCreate(w)
    \/ \E w \in Workers : Done(w)

WatchSpec == WatchInit /\ [][WatchNext]_vars

\* C21: no sequence of add, update and delete notifications, a delete
\* notification that carries a final-state-unknown tombstone included, and
\* of reconcile invocations makes a handler or the reconciler panic: the
\* process never ends in a crash
C21_NoPanic == \A w \in Workers : pc[w] # "crashed"

\* the step in which an informer hands its oldest pending notification to
\* the handler
PvcNotified == pvcEvents # <<>> /\ pvcEvents' = Tail(pvcEvents)
NsNotified == nsEvents # <<>> /\ nsEvents' = Tail(nsEvents)
VrNotified == vrEvents # <<>> /\ vrEvents' = Tail(vrEvents)

\* the queue after Add(key) on the queue before, by the queue's contract
Enqueued(key) ==
    /\ dirty' = dirty \cup {key}
    /\ processing' = processing
    /\ queue' = IF key \in dirty \/ key \in processing THEN queue ELSE Append(queue, key)

\* C23: every claim add, update and delete notification enqueues the key
\* namespace/name of the claim, whatever the claim's content
C23_ClaimNotificationEnqueues ==
    [][PvcNotified => Enqueued(Head(pvcEvents).key)]_vars

\* C24: a namespace update enqueues the key of every claim cached in the
\* namespace when the value of the class annotation differs between the old
\* and the new version, and leaves the queue as it is when the values are
\* equal, an absent annotation and an empty one being equal
C24_NamespaceUpdate ==
    [][NsNotified =>
         LET new == Head(nsEvents).obj
             old == nsCache[Head(nsEvents).key]
             value(ns) == IF VrcAnnotation \in DOMAIN ns.annotations
                          THEN ns.annotations[VrcAnnotation] ELSE ""
             cached == { k \in DOMAIN pvcCache :
                           pvcCache[k] # Nil /\ pvcCache[k].namespace = new.name }
         IN IF value(old) # value(new)
            THEN /\ dirty' = dirty \cup cached
                 /\ processing' = processing
                 /\ \A k \in cached :
                       (k \notin dirty /\ k \notin processing)
                          => \E n \in 1..Len(queue') : queue'[n] = k
            ELSE UNCHANGED queueVars]_vars

\* the namespace's class annotation has changed, the update is delivered and
\* the cached claim's key is queued
C24_Witness ==
    \E k \in Keys :
        /\ nchanges = 1
        /\ nsEvents = <<>>
        /\ nsCache[k[1]] = Ns(k[1], (VrcValueAnnotation :> "silver"))
        /\ nsCache = apiNs
        /\ pvcCache[k] # Nil
        /\ last[k] # Nil
        /\ pc = [w \in Workers |-> "idle"]
        /\ queue = <<k>>

\* C25: every descriptor add and delete notification enqueues the key made
\* of the descriptor's namespace and name, owned or not
C25_DescriptorAddDeleteEnqueues ==
    [][(VrNotified /\ (vrCache[Head(vrEvents).key] = Nil \/ Head(vrEvents).obj = Nil))
          => Enqueued(Head(vrEvents).key)]_vars

\* C26: a descriptor update notification enqueues the descriptor's key if
\* and only if the new version carries a non-empty parent label and its
\* spec differs from the old version's spec; an update of labels or status
\* only, and an update to an unowned descriptor, enqueue nothing
C26_DescriptorUpdate ==
    [][(VrNotified /\ vrCache[Head(vrEvents).key] # Nil /\ Head(vrEvents).obj # Nil) =>
         LET new == Head(vrEvents).obj
             old == vrCache[Head(vrEvents).key]
         IN IF Owned(new) /\ old.spec # new.spec
            THEN Enqueued(Head(vrEvents).key)
            ELSE UNCHANGED queueVars]_vars

\* an owned descriptor's class was changed from outside, the update is
\* delivered and the key is queued after the first reconcile
C26_Witness ==
    \E k \in Keys :
        /\ nchanges = 1
        /\ vrEvents = <<>>
        /\ vrCache[k] # Nil
        /\ vrCache = apiVr
        /\ Owned(vrCache[k])
        /\ vrCache[k].spec.volumeReplicationClass = "bronze"
        /\ last[k] # Nil
        /\ last[k].calls = <<>>
        /\ pc = [w \in Workers |-> "idle"]
        /\ queue = <<k>>

\* the controller on the clusters of the fair runs, with no assumption on
\* scheduling
SelectorSpec == LiveInit /\ [][LiveNext]_vars

\* C35: a namespace update that changes the class-selector annotation and
\* leaves the class annotation as it was enqueues no claim key, although
\* the namespace's selector takes part in resolving the class of its claims
C35_SelectorChangeNotEnqueued ==
    [][NsNotified =>
         LET new == Head(nsEvents).obj
             old == nsCache[Head(nsEvents).key]
             read(ns, annotation) == IF annotation \in DOMAIN ns.annotations
                                     THEN ns.annotations[annotation] ELSE ""
         IN (/\ read(old, VrcValueAnnotation) = read(new, VrcValueAnnotation)
             /\ read(old, VrcSelectorAnnotation) # read(new, VrcSelectorAnnotation))
               => UNCHANGED queueVars]_vars

\* the namespace has received the selector daily, the update is delivered,
\* the claim without annotations now resolves a class and has no
\* descriptor, and nothing is queued
C35_Witness ==
    \E k \in Keys :
        /\ nchanges = 1
        /\ NoPendingEvents
        /\ nsCache = apiNs
        /\ nsCache[k[1]].annotations = (VrcSelectorAnnotation :> "daily")
        /\ pvcCache[k] # Nil
        /\ pvcCache[k].annotations = EmptyMap
        /\ Wanted(k) = "vrc-daily"
        /\ apiVr[k] = Nil
        /\ last[k] # Nil
        /\ last[k].calls = <<>>
        /\ pc = [w \in Workers |-> "idle"]
        /\ queue = <<>>
        /\ dirty = {}

\* ------------------------------------------------------------------------
\* Shutdown: the interrupt signal cancels the context of Run and of the
\* leader elector
\* ------------------------------------------------------------------------
\* pc["run"] is the position of Controller.Run: "waiting" at <-ctx.Done(),
\* "cancelled" once the context is done, "returned" after the deferred
\* c.pvcQueue.ShutDown()
ShutdownInit ==
    /\ apiPvc \in { f \in [QueueKeys -> UNION { QueuePvcs(k) : k \in QueueKeys } \cup {Nil}] :
                      \A k \in QueueKeys : f[k] = Nil \/ f[k] \in QueuePvcs(k) }
    /\ apiNs = [n \in Namespaces |-> Ns(n, EmptyMap)]
    /\ apiVr \in { f \in [QueueKeys -> UNION { OwnedVrs(k) : k \in QueueKeys } \cup {Nil}] :
                     \A k \in QueueKeys : f[k] = Nil \/ f[k] \in OwnedVrs(k) }
    /\ apiSc = ("fast" :> (StorageClassGroup :> "ceph"))
    /\ vrcs = { Vrc("vrc-daily", DailyLabels, "rbd.csi") }
    /\ apiUp = TRUE
    /\ pvcCache = apiPvc
    /\ nsCache = apiNs
    /\ vrCache = apiVr
    /\ pvcEvents = <<>>
    /\ nsEvents = <<>>
    /\ vrEvents = <<>>
    /\ dirty = { k \in QueueKeys : apiPvc[k] # Nil \/ apiVr[k] # Nil }
    /\ queue \in Orders(dirty)
    /\ processing = {}
    /\ pc = [w \in Workers \cup {"run"} |-> IF w = "run" THEN "waiting" ELSE "idle"]
    /\ inv = [w \in Workers |-> Nil]
    /\ last = [k \in QueueKeys |-> Nil]
    /\ nchanges = 0

\* os.Interrupt: signal.NotifyContext cancels ctx
Signal ==
    /\ pc["run"] = "waiting"
    /\ pc' = [pc EXCEPT !["run"] = "cancelled"]
    /\ UNCHANGED <<apiVars, cacheVars, eventVars, queueVars, inv, last, nchanges>>

\* Run: <-ctx.Done() returns, the deferred ShutDown runs, Run returns
\* without waiting for the workers
RunReturns ==
    /\ pc["run"] = "cancelled"
    /\ pc' = [pc EXCEPT !["run"] = "returned"]
    /\ UNCHANGED <<apiVars, cacheVars, eventVars, queueVars, inv, last, nchanges>>

\* the leader elector's Run returns on the cancelled context and calls
\* OnStoppedLeading, which is os.Exit(0): every goroutine ends where it is
Exit ==
    /\ pc["run"] \in {"cancelled", "returned"}
    /\ pc' = [w \in DOMAIN pc |->
                IF pc[w] \in {"reconcile", "create"} THEN "killed" ELSE "exited"]
    /\ UNCHANGED <<apiVars, cacheVars, eventVars, queueVars, inv, last, nchanges>>

\* key, quit := c.pvcQueue.Get() with quit true: the queue is shut down and
\* empty, processNextItem returns false and runWorker ends
Quit(w) ==
    /\ pc[w] = "idle"
    /\ queue = <<>>
    /\ ShuttingDown
    /\ pc' = [pc EXCEPT ![w] = "stopped"]
    /\ UNCHANGED <<apiVars, cacheVars, eventVars, queueVars, inv, last, nchanges>>

ShutdownNext ==
    \/ \E k \in QueueKeys : \E obj \in QueuePvcs(k) \cup {Nil} : ExtPvc(k, obj)
    \/ Signal
    \/ RunReturns
    \/ Exit
    \/ DeliverPvc
    \/ DeliverVr
    \/ Resync
    \/ \E w \in Workers : Get(w)
    \/ \E w \in Workers : reconcileVolumeReplication(w)
    \/ \E w \in Workers : reconcileCreate(w)
    \/ \E w \in Workers : Done(w)
    \/ \E w \in Workers : Quit(w)

ShutdownSpec == ShutdownInit /\ [][ShutdownNext]_vars

\* C22: after the shutdown signal the queue accepts no new keys, every
\* reconcile already in flight runs to completion, and every worker loop
\* eventually stops; in particular no worker is ended inside
\* reconcileVolumeReplication
C22_InFlightCompletes == \A w \in Workers : pc[w] # "killed"

\* ------------------------------------------------------------------------
\* isVolumeReplicationCorrect on claims and descriptors of every shape
\* ------------------------------------------------------------------------
\* the dataSource maps of the descriptors: each of the three entries right,
\* wrong or, for a map without entries, missing
ConformDataSources(n) ==
    { DataSource(g, k, x) : g \in {"v1", "apps/v1"},
                            k \in {"PersistentVolumeClaim", "Pod"},
                            x \in {n, "other"} } \cup {EmptyMap}
ConformClasses == {"gold", "silver", "vrc-daily", "bronze", ""}
ConformVrs(key) ==
    { Vr(SplitNamespace(key), SplitName(key), EmptyMap, (ParentLabel :> SplitName(key)),
         VrSpec(c, "primary", d)) :
        c \in ConformClasses, d \in ConformDataSources(SplitName(key)) }

ConformInit ==
    /\ pvcCache \in { f \in [Keys -> UNION { ActivePvcs(k) : k \in Keys }] :
                        \A k \in Keys : f[k] \in ActivePvcs(k) }
    /\ apiPvc = pvcCache
    /\ nsCache \in { f \in [Namespaces -> UNION { NsValues(n) : n \in Namespaces }] :
                       \A n \in Namespaces : f[n] \in NsValues(n) }
    /\ apiNs = nsCache
    /\ vrCache \in { f \in [Keys -> UNION { ConformVrs(k) : k \in Keys }] :
                       \A k \in Keys : f[k] \in ConformVrs(k) }
    /\ apiVr = vrCache
    /\ apiSc = ("fast" :> (StorageClassGroup :> "ceph"))
    /\ vrcs \in { {}, { Vrc("vrc-daily", DailyLabels, "rbd.csi") } }
    /\ apiUp = TRUE
    /\ pvcEvents = <<>>
    /\ nsEvents = <<>>
    /\ vrEvents = <<>>
    /\ queue = <<>>
    /\ dirty = {}
    /\ processing = {}
    /\ pc = [w \in Workers |-> "idle"]
    /\ inv = [w \in Workers |-> Nil]
    /\ last = [k \in Keys |-> Nil]
    /\ nchanges = 0

\* isVolumeReplicationCorrect applied to the cached claim and descriptor
Conform(w, key) ==
    /\ inv[w] = Nil
    /\ LET pvc == getPersistentVolumeClaim(key)
           vr == getVolumeReplication(key)
       IN inv' = [inv EXCEPT ![w] =
                    [pvc |-> pvc, vr |-> vr,
                     correct |-> isVolumeReplicationCorrect(pvc, vr)]]
    /\ UNCHANGED <<apiVars, cacheVars, eventVars, queueVars, pc, last, nchanges>>

ConformNext == \E w \in Workers : \E k \in Keys : Conform(w, k)

ConformSpec == ConformInit /\ [][ConformNext]_vars

\* the entry of a dataSource, "" when the map has none
Entry(dataSource, field) ==
    IF field \in DOMAIN dataSource THEN dataSource[field] ELSE ""

\* C27: isVolumeReplicationCorrect(claim, descriptor) is true if and only
\* if the descriptor's class is the policy resolved for the claim and its
\* dataSource has apiGroup "v1", kind PersistentVolumeClaim and the claim's
\* name; a mismatch in any one of the four makes it false
C27_CorrectIff ==
    \A w \in Workers :
        inv[w] # Nil =>
            LET pvc == inv[w].pvc
                vr == inv[w].vr
                policyOk == vr.spec.volumeReplicationClass
                               = PolicyFor(pvc, nsCache[pvc.namespace])
                groupOk == Entry(vr.spec.dataSource, "apiGroup") = "v1"
                kindOk == Entry(vr.spec.dataSource, "kind") = "PersistentVolumeClaim"
                nameOk == Entry(vr.spec.dataSource, "name") = pvc.name
            IN /\ inv[w].correct <=> (policyOk /\ groupOk /\ kindOk /\ nameOk)
               /\ \A ok \in {policyOk, groupOk, kindOk, nameOk} : ~ok => ~inv[w].correct

\* a descriptor whose class is the one the claim's selector resolves and
\* whose dataSource names the claim was judged correct
C27_Witness ==
    \E w \in Workers :
        /\ inv[w] # Nil
        /\ inv[w].correct
        /\ inv[w].vr.spec.volumeReplicationClass = "vrc-daily"
        /\ OwnAnnotation(inv[w].pvc, VrcValueAnnotation) = ""
        /\ nsCache[inv[w].pvc.namespace].annotations = EmptyMap

\* ------------------------------------------------------------------------
\* isParentLabelPresent on label maps of every shape
\* ------------------------------------------------------------------------
\* the label maps: nil, empty, without the parent key, with the parent key
\* and an empty or a non-empty value, next to other labels or alone
OwnerLabels ==
    {Nil} \cup
    { a @@ b : a \in Optional("app", {"db"}),
               b \in Optional(ParentLabel, {"", "data-1", "test"}) }
OwnerVrs(key) ==
    { Vr(SplitNamespace(key), SplitName(key), EmptyMap, l,
         VrSpec(c, "primary", DataSource("v1", "PersistentVolumeClaim", x))) :
        l \in OwnerLabels, c \in ConformClasses, x \in {SplitName(key), "other"} }

OwnerInit ==
    /\ apiPvc = [k \in Keys |-> Nil]
    /\ pvcCache = apiPvc
    /\ apiNs = [n \in Namespaces |-> Ns(n, EmptyMap)]
    /\ nsCache = apiNs
    /\ vrCache \in { f \in [Keys -> UNION { OwnerVrs(k) : k \in Keys }] :
                       \A k \in Keys : f[k] \in OwnerVrs(k) }
    /\ apiVr = vrCache
    /\ apiSc = ("fast" :> (StorageClassGroup :> "ceph"))
    /\ vrcs = {}
    /\ apiUp = TRUE
    /\ pvcEvents = <<>>
    /\ nsEvents = <<>>
    /\ vrEvents = <<>>
    /\ queue = <<>>
    /\ dirty = {}
    /\ processing = {}
    /\ pc = [w \in Workers |-> "idle"]
    /\ inv = [w \in Workers |-> Nil]
    /\ last = [k \in Keys |-> Nil]
    /\ nchanges = 0

\* isParentLabelPresent applied to the labels of the cached descriptor, and
\* the reconciler's test built on it
IsOwned(w, key) ==
    /\ inv[w] = Nil
    /\ LET vr == getVolumeReplication(key)
       IN inv' = [inv EXCEPT ![w] =
                    [vr |-> vr,
                     owned |-> isParentLabelPresent(vr.labels),
                     notOwned |-> notOwned(vr)]]
    /\ UNCHANGED <<apiVars, cacheVars, eventVars, queueVars, pc, last, nchanges>>

OwnerNext == \E w \in Workers : \E k \in Keys : IsOwned(w, k)

OwnerSpec == OwnerInit /\ [][OwnerNext]_vars

\* C30: a descriptor counts as owned if and only if its label map contains
\* the parent key with a non-empty value; a nil map, a map without the key
\* and a map with an empty value for the key count as unowned
C30_OwnedIff ==
    \A w \in Workers :
        inv[w] # Nil =>
            LET labels == inv[w].vr.labels
                hasKey == labels # Nil /\ ParentLabel \in DOMAIN labels
            IN /\ inv[w].owned <=> (hasKey /\ labels[ParentLabel] # "")
               /\ labels = Nil => ~inv[w].owned
               /\ (labels # Nil /\ ParentLabel \notin DOMAIN labels) => ~inv[w].owned
               /\ (hasKey /\ labels[ParentLabel] = "") => ~inv[w].owned
               /\ inv[w].notOwned <=> ~inv[w].owned

\* a descriptor whose parent label is there with the empty value, next to
\* another label, was judged unowned
C30_Witness ==
    \E w \in Workers :
        /\ inv[w] # Nil
        /\ inv[w].vr.labels = ("app" :> "db") @@ (ParentLabel :> "")
        /\ ~inv[w].owned

\* ------------------------------------------------------------------------
\* pvcNameMatchesExclusion under every setting of --exclusion-regex
\* ------------------------------------------------------------------------
\* the settings of the flag: unset, not compilable, a prefix (the README's
\* example among them) and a suffix
ExclusionPatterns == {"", "(", "^data-.*", "^prime-.*", "-1$"}
ExclusionNames == {"data-1", "prime-1", "db"}
ExclusionKeys == { MetaNamespaceKey(ns, n) : ns \in Namespaces, n \in ExclusionNames }

ExclusionInit ==
    /\ pvcCache \in { f \in [ExclusionKeys -> UNION { ActivePvcs(k) : k \in ExclusionKeys }] :
                        \A k \in ExclusionKeys : f[k] \in ActivePvcs(k) }
    /\ apiPvc = pvcCache
    /\ apiNs = [n \in Namespaces |-> Ns(n, EmptyMap)]
    /\ nsCache = apiNs
    /\ apiVr = [k \in ExclusionKeys |-> Nil]
    /\ vrCache = apiVr
    /\ apiSc = ("fast" :> (StorageClassGroup :> "ceph"))
    /\ vrcs = {}
    /\ apiUp = TRUE
    /\ pvcEvents = <<>>
    /\ nsEvents = <<>>
    /\ vrEvents = <<>>
    /\ queue = <<>>
    /\ dirty = {}
    /\ processing = {}
    /\ pc = [w \in Workers |-> "idle"]
    /\ inv = [w \in Workers |-> Nil]
    /\ last = [k \in ExclusionKeys |-> Nil]
    /\ nchanges = 0

\* pvcNameMatchesExclusion applied to a cached claim, the flag set to regex
Exclude(w, key, regex) ==
    /\ inv[w] = Nil
    /\ LET pvc == getPersistentVolumeClaim(key)
       IN inv' = [inv EXCEPT ![w] =
                    [regex |-> regex, pvc |-> pvc,
                     excluded |-> pvcNameMatchesExclusionRegex(regex, pvc)]]
    /\ UNCHANGED <<apiVars, cacheVars, eventVars, queueVars, pc, last, nchanges>>

ExclusionNext ==
    \E w \in Workers : \E k \in ExclusionKeys : \E regex \in ExclusionPatterns :
        Exclude(w, k, regex)

ExclusionSpec == ExclusionInit /\ [][ExclusionNext]_vars

\* the names a compilable, non-empty pattern of the model matches
Compiles(regex) == regex # "("
NamesMatching(regex) ==
    IF regex = "^data-.*" THEN {"data-1"}
    ELSE IF regex = "^prime-.*" THEN {"prime-1"}
    ELSE IF regex = "-1$" THEN {"data-1", "prime-1"}
    ELSE {}

\* C31: pvcNameMatchesExclusion is false for every claim name when the
\* pattern is empty and when it cannot be compiled, and otherwise tells
\* whether the pattern matches the claim's name
C31_ExclusionMatch ==
    \A w \in Workers :
        inv[w] # Nil =>
            /\ inv[w].regex = "" => ~inv[w].excluded
            /\ ~Compiles(inv[w].regex) => ~inv[w].excluded
            /\ (inv[w].regex # "" /\ Compiles(inv[w].regex)) =>
                  (inv[w].excluded <=> inv[w].pvc.name \in NamesMatching(inv[w].regex))

\* the README's pattern excluded the claim whose name begins with prime-
C31_Witness ==
    \E w \in Workers :
        /\ inv[w] # Nil
        /\ inv[w].regex = "^prime-.*"
        /\ inv[w].pvc.name = "prime-1"
        /\ inv[w].excluded

\* ------------------------------------------------------------------------
\* Descriptors whose replicationState an operator has changed
\* ------------------------------------------------------------------------
\* owned descriptors of the claim, of either class, in every state
ReplicationStates == {"primary", "secondary", "resync"}
StateVrs(key) ==
    { Vr(SplitNamespace(key), SplitName(key), EmptyMap, (ParentLabel :> SplitName(key)),
         VrSpec(c, st, DataSource("v1", "PersistentVolumeClaim", SplitName(key)))) :
        c \in {"gold", "silver"}, st \in ReplicationStates }

StateInit ==
    /\ apiPvc \in { f \in [Keys -> UNION { ActivePvcs(k) : k \in Keys }] :
                      \A k \in Keys : f[k] \in ActivePvcs(k) }
    /\ apiNs \in { f \in [Namespaces -> UNION { NsValues(n) : n \in Namespaces }] :
                     \A n \in Namespaces : f[n] \in NsValues(n) }
    /\ apiVr \in { f \in [Keys -> UNION { StateVrs(k) : k \in Keys } \cup {Nil}] :
                     \A k \in Keys : f[k] = Nil \/ f[k] \in StateVrs(k) }
    /\ apiSc = ("fast" :> (StorageClassGroup :> "ceph"))
    /\ vrcs = { Vrc("vrc-daily", DailyLabels, "rbd.csi") }
    /\ apiUp = TRUE
    /\ Started(Keys, Workers)

StateNext ==
    \/ \E k \in Keys : \E obj \in StateVrs(k) \cup {Nil} : ExtVr(k, obj)
    \/ DeliverVr
    \/ Resync
    \/ \E w \in Workers : Get(w)
    \/ \E w \in Workers : reconcileVolumeReplication(w)
    \/ \E w \in Workers : reconcileCreate(w)
    \/ \E w \in Workers : Done(w)

StateSpec == StateInit /\ [][StateNext]_vars

\* C37: the replicationState is not part of the correctness check: an
\* owned descriptor whose class and dataSource match the active claim and
\* whose replicationState is not "primary" is left untouched, no delete and
\* no create being issued
C37_StateNotChecked ==
    \A w \in Workers :
        (/\ inv[w] # Nil
         /\ pc[w] # "reconcile"
         /\ ClaimActive(inv[w])
         /\ FoundOwned(inv[w])
         /\ inv[w].vr.spec.volumeReplicationClass = inv[w].class
         /\ References(inv[w].vr, inv[w].pvc)
         /\ inv[w].vr.spec.replicationState # "primary")
            => /\ pc[w] \in {"done", "idle"}
               /\ NoCall(inv[w])

\* an operator has demoted the conforming descriptor to secondary, the
\* update was delivered and the reconcile that followed issued no call
C37_Witness ==
    \E w \in Workers :
        /\ Completed(w)
        /\ nchanges = 1
        /\ ClaimActive(inv[w])
        /\ FoundOwned(inv[w])
        /\ inv[w].vr.spec.replicationState = "secondary"
        /\ inv[w].vr.spec.volumeReplicationClass = inv[w].class
        /\ inv[w].calls = <<>>
        /\ apiVr[inv[w].key] = inv[w].vr

\* ------------------------------------------------------------------------
\* getLabelsWithParent on label maps of every shape
\* ------------------------------------------------------------------------
\* the label maps of the claims: nil, empty, with other labels, with a
\* parent label already there
ParentInputLabels ==
    {Nil} \cup
    { a @@ b @@ c @@ d : a \in Optional("a", {"b"}), b \in Optional("c", {"d"}),
                         c \in Optional("app", {"db"}),
                         d \in Optional(ParentLabel, {"old-test", "", "data-1"}) }
Parents == {"test", "new-test", "data-1", ""}

ParentInit ==
    /\ pvcCache \in { f \in [Keys -> { Pvc(SplitNamespace(k), SplitName(k), EmptyMap, l,
                                           "fast", FALSE) :
                                         k \in Keys, l \in ParentInputLabels }] :
                        \A k \in Keys : f[k].name = SplitName(k) }
    /\ apiPvc = pvcCache
    /\ apiNs = [n \in Namespaces |-> Ns(n, EmptyMap)]
    /\ nsCache = apiNs
    /\ apiVr = [k \in Keys |-> Nil]
    /\ vrCache = apiVr
    /\ apiSc = ("fast" :> (StorageClassGroup :> "ceph"))
    /\ vrcs = {}
    /\ apiUp = TRUE
    /\ pvcEvents = <<>>
    /\ nsEvents = <<>>
    /\ vrEvents = <<>>
    /\ queue = <<>>
    /\ dirty = {}
    /\ processing = {}
    /\ pc = [w \in Workers |-> "idle"]
    /\ inv = [w \in Workers |-> Nil]
    /\ last = [k \in Keys |-> Nil]
    /\ nchanges = 0

\* getLabelsWithParent applied to the labels of a cached claim; the claim
\* keeps the map that was passed in
WithParent(w, key, parent) ==
    /\ inv[w] = Nil
    /\ LET pvc == getPersistentVolumeClaim(key)
           call == getLabelsWithParentCall(pvc.labels, parent)
       IN /\ inv' = [inv EXCEPT ![w] =
                       [key |-> key, labels |-> pvc.labels, parent |-> parent,
                        res |-> call.res]]
          /\ pvcCache' = [pvcCache EXCEPT ![key].labels = call.pvcLabels]
    /\ UNCHANGED <<apiVars, nsCache, vrCache, eventVars, queueVars, pc, last, nchanges>>

ParentNext == \E w \in Workers : \E k \in Keys : \E parent \in Parents : WithParent(w, k, parent)

ParentSpec == ParentInit /\ [][ParentNext]_vars

\* C38: getLabelsWithParent returns a new map equal to the input labels
\* with the parent key set to the given parent, whatever value the key had;
\* it accepts a nil input map and leaves the input map as it was
C38_LabelsWithParent ==
    \A w \in Workers :
        inv[w] # Nil =>
            LET in == inv[w].labels
                out == inv[w].res
                keys == IF in = Nil THEN {} ELSE DOMAIN in
            IN /\ DOMAIN out = keys \cup {ParentLabel}
               /\ out[ParentLabel] = inv[w].parent
               /\ \A k \in keys \ {ParentLabel} : out[k] = in[k]
               /\ pvcCache[inv[w].key].labels = in

\* the parent label the claim carried was overridden, the other label kept
C38_Witness ==
    \E w \in Workers :
        /\ inv[w] # Nil
        /\ inv[w].labels = ("a" :> "b") @@ (ParentLabel :> "old-test")
        /\ inv[w].parent = "new-test"
        /\ inv[w].res = ("a" :> "b") @@ (ParentLabel :> "new-test")
====
